---- MODULE Spec2Model ----
(***************************************************************************)
(* State-machine model of the NYT mini crossword client (src/src/App.jsx,  *)
(* first component in the file, lines 1-905) and of its localStorage       *)
(* helpers (src/src/utils/scoreStorage.js).                                *)
(*                                                                         *)
(* Conventions                                                             *)
(*  - JS arrays are functions over 0..n-1 (Arr/length), so that indices    *)
(*    are the indices of the source; clue.cells are TLA+ sequences of      *)
(*    0-based cell indices.                                                *)
(*  - JS null / undefined of a field is the string Absent; a null grid     *)
(*    cell is the record Null; activeIndex === null is NoIndex.            *)
(*  - Every event handler runs to completion on the state of the last      *)
(*    render: an action reads the unprimed variables as the closure.       *)
(*  - Awaits split a function into steps: load() has the part before       *)
(*    `await fetch` (LoadStart) and the part after it (LoadResolve);       *)
(*    finishPuzzle has the part before `await play()` (finishPuzzle) and   *)
(*    the part after it (finishResume).                                    *)
(***************************************************************************)
EXTENDS Integers, Sequences, FiniteSets, TLC

\* ------------------------------------------------------------------ bounds
MaxTimer == 1      \* the timer stops ticking at this value
MaxInflight == 2   \* fetches that may be in flight at once
MaxPending == 1    \* finishPuzzle continuations waiting on play()
MaxNav == 1        \* route changes made from the navigation buttons
MaxEvents == 5     \* user events (keys, clicks, visibility changes) in a run
MaxSeconds == 2    \* seconds values passed to recordScore (SpecScores)
MaxLen == 2        \* length of the grids given to isAllCorrect (SpecAllCorrect)

\* --------------------------------------------------------------- universe
D1 == "2024-01-01"
D2 == "2024-01-02"
Dates == {D1, D2}
Random == "random"
Today == D2                     \* what todayISO() returns in this run
Params == Dates \cup {Random}   \* values of the :date route parameter

Absent == "undefined"
Null == [null |-> TRUE]
NoIndex == 0 - 1
NoPuzzle == <<>>

Arr(s) == [i \in 0..(Len(s) - 1) |-> s[i + 1]]
length(a) == Cardinality(DOMAIN a)
EmptyArr == Arr(<<>>)

\* String.prototype.toUpperCase on the characters of the model
asTyped(s) == s

toUpperCase(s) ==
  CASE s = "a" -> "A"
    [] s = "b" -> "B"
    [] OTHER -> s

\* x || "" for a string-or-undefined field
OrEmpty(x) == IF x = Absent THEN "" ELSE x

\* /^\d{4}-\d{2}-\d{2}$/.test(s)
isDateStr(s) == s \in Dates

\* ---------------------------------------------------------------- documents
\* The documents the proxy serves.  D1: 2x2, cell 3 blocked, 1-Across = 0,1
\* and 1-Down = 0,2, one lowercase answer, no dimensions (inferred).
\* D2: 3x1 with explicit dimensions, cell 2 blocked, 1-Across = 0,1 the
\* only word.
RawCell(t, a, l) == [type |-> t, answer |-> a, label |-> l]
RawClue(l, d, c) == [label |-> l, direction |-> d, text |-> "t", cells |-> c]

Doc(date) ==
  IF date = D1
  THEN [cells |-> Arr(<<RawCell(1, "A", "1"), RawCell(1, "b", Absent),
                        RawCell(1, "A", Absent), RawCell(0, Absent, Absent)>>),
        clues |-> <<RawClue("1", "Across", <<0, 1>>), RawClue("1", "Down", <<0, 2>>)>>,
        hasDims |-> FALSE, cols |-> 0, rows |-> 0]
  ELSE [cells |-> Arr(<<RawCell(1, "B", Absent), RawCell(1, "A", Absent),
                        RawCell(0, Absent, Absent)>>),
        clues |-> <<RawClue("1", "Across", <<0, 1>>)>>,
        hasDims |-> TRUE, cols |-> 3, rows |-> 1]

\* ------------------------------------------------------------ pure helpers
isPlayableCell(c) == c # Null /\ (c.type = 1 \/ c.answer # Absent)

isAllCorrectNoCase(grid) ==
  /\ length(grid) > 0
  /\ \A i \in DOMAIN grid :
       grid[i] = Null \/ OrEmpty(grid[i].userInput) = OrEmpty(grid[i].answer)

isAllCorrect(grid) ==
  /\ length(grid) > 0
  /\ \A i \in DOMAIN grid :
       \/ grid[i] = Null
       \/ toUpperCase(OrEmpty(grid[i].userInput)) = toUpperCase(OrEmpty(grid[i].answer))

\* Math.sqrt(n) | 0
ISqrt(n) == CHOOSE k \in 0..n : k * k <= n /\ (k + 1) * (k + 1) > n
\* Math.ceil(a / b)
CeilDiv(a, b) == (a + b - 1) \div b

newCols(doc) == IF doc.hasDims THEN doc.cols ELSE ISqrt(length(doc.cells))
newRows(doc) == IF doc.hasDims THEN doc.rows ELSE CeilDiv(length(doc.cells), newCols(doc))

\* data.cells.map(...) of load
baseGrid(doc) ==
  [i \in DOMAIN doc.cells |->
     IF isPlayableCell(doc.cells[i])
     THEN [answer |-> doc.cells[i].answer, label |-> doc.cells[i].label,
           userInput |-> "", status |-> "neutral"]
     ELSE Null]

\* data.clues.forEach: the start cell of each clue takes the clue's label,
\* in document order (the last clue starting at a cell wins)
RECURSIVE labelClues(_, _)
labelClues(g, clues) ==
  IF clues = <<>> THEN g
  ELSE LET cl == Head(clues)
           startIdx == IF Len(cl.cells) > 0 THEN cl.cells[1] ELSE NoIndex
           g2 == IF startIdx \in DOMAIN g /\ g[startIdx] # Null
                 THEN [g EXCEPT ![startIdx].label = cl.label]
                 ELSE g
       IN labelClues(g2, Tail(clues))

initialGrid(doc) == labelClues(baseGrid(doc), doc.clues)

corePuzzle(doc) ==
  [k \in 1..Len(doc.clues) |->
     [label |-> doc.clues[k].label, direction |-> doc.clues[k].direction,
      clue |-> doc.clues[k].text, cells |-> doc.clues[k].cells]]

\* effectiveDate useMemo
effectiveDate(dp) == IF dp = Random THEN Absent ELSE IF isDateStr(dp) THEN dp ELSE Today

\* currentDate useMemo, and thisDate of load: the same expression
currentDateOf(dp) ==
  IF isDateStr(dp) THEN dp
  ELSE IF effectiveDate(dp) # Absent THEN effectiveDate(dp) ELSE Today

\* --------------------------------------------------------- stored progress
NoRec == [none |-> TRUE]

\* nextGrid.map(c => c ? {userInput: c.userInput || "", status: c.status || "neutral"} : null)
stripGrid(g) ==
  [i \in DOMAIN g |->
     IF g[i] = Null THEN Null
     ELSE [userInput |-> OrEmpty(g[i].userInput),
           status |-> IF g[i].status \in {Absent, ""} THEN "neutral" ELSE g[i].status,
           answer |-> Absent]]

ProgressRec(date, g, t, s, p, c) ==
  [date |-> date, timer |-> t, started |-> s, paused |-> p, completed |-> c, grid |-> g]


\* localStorage[STORAGE_KEY_STATE] as a map date -> record; JSON.stringify /
\* JSON.parse of the records of this model (strings, finite numbers,
\* booleans, null, arrays) gives the same record back
\*
\* Every function of scoreStorage.js wraps its localStorage calls in
\* try / catch: when getItem or setItem throws during the step being taken
\* (storage' = "raises"), a read gives null / [] and a write does nothing.
VARIABLE storage    \* "sound": localStorage never throws in this run;
                    \* otherwise whether it worked or threw in the last step

raises == storage' = "raises"

\* what loadPuzzleState can read: when getItem throws, the catch returns
\* null whatever the date
storageReadNoCatch(st) == st

storageRead(st) == IF raises THEN [d \in DOMAIN st |-> NoRec] ELSE st

loadPuzzleState(st, date) == IF date \in DOMAIN st THEN st[date] ELSE NoRec
savePuzzleState(st, date, rec) ==
  IF raises THEN st
  ELSE IF date \in DOMAIN st THEN [st EXCEPT ![date] = rec] ELSE st
clearPuzzleState(st, date) ==
  IF raises THEN st
  ELSE IF date \in DOMAIN st /\ st[date] # NoRec THEN [st EXCEPT ![date] = NoRec] ELSE st

\* typeof s.userInput === "string" ? s.userInput : ""   and   s.status || "neutral"
savedCell(saved, i) ==
  IF i \notin DOMAIN saved.grid \/ saved.grid[i] = Null THEN [userInput |-> Absent, status |-> Absent, answer |-> Absent]
  ELSE saved.grid[i]

mergeSavedTakingAnswer(initial, saved) ==
  [i \in DOMAIN initial |->
     IF initial[i] = Null THEN Null
     ELSE LET s == savedCell(saved, i)
          IN [answer |-> IF s.answer # Absent THEN s.answer ELSE initial[i].answer,
              label |-> initial[i].label,
              userInput |-> IF s.userInput = Absent THEN "" ELSE s.userInput,
              status |-> IF s.status \in {Absent, ""} THEN "neutral" ELSE s.status]]

mergeSaved(initial, saved) ==
  [i \in DOMAIN initial |->
     IF initial[i] = Null THEN Null
     ELSE LET s == savedCell(saved, i)
          IN [initial[i] EXCEPT
                !.userInput = IF s.userInput = Absent THEN "" ELSE s.userInput,
                !.status = IF s.status \in {Absent, ""} THEN "neutral" ELSE s.status]]

savedIsValidAnyLength(saved, initial) == saved # NoRec

\* saved && Array.isArray(saved.grid) && saved.grid.length === initialGrid.length
savedIsValid(saved, initial) == saved # NoRec /\ length(saved.grid) = length(initial)

\* restoredGrid.findIndex(c => c && typeof c.answer === "string")
firstPlayable(g) ==
  LET S == {i \in DOMAIN g : g[i] # Null /\ g[i].answer # Absent}
  IN IF S = {} THEN NoIndex ELSE CHOOSE i \in S : \A j \in S : i <= j

\* the state load() sets after a successful fetch of doc, with the stored
\* record looked up under thisDate
loaded(doc, st, thisDate) ==
  LET init == initialGrid(doc)
      saved == loadPuzzleState(st, thisDate)
      ok == savedIsValid(saved, init)
      g == IF ok THEN mergeSaved(init, saved) ELSE init
  IN [puzzle |-> corePuzzle(doc), grid |-> g,
      cols |-> newCols(doc), rows |-> newRows(doc),
      timer |-> IF ok THEN saved.timer ELSE 0,
      started |-> IF ok THEN saved.started ELSE FALSE,
      paused |-> IF ok THEN saved.paused ELSE FALSE,
      completed |-> IF ok THEN saved.completed ELSE FALSE,
      activeIndex |-> firstPlayable(g), direction |-> "Across"]

\* --------------------------------------------------------- scoreboard store
\* localStorage[STORAGE_KEY_SCORES]: a list of {date, seconds}
findIndexDate(list, date) ==
  LET S == {k \in 1..Len(list) : list[k].date = date}
  IN IF S = {} THEN 0 ELSE CHOOSE k \in S : \A j \in S : k <= j

recordScoreAlways(list, date, seconds) ==
  IF ~isDateStr(date) THEN list
  ELSE LET i == findIndexDate(list, date)
       IN IF i > 0
          THEN [list EXCEPT ![i] = [date |-> date, seconds |-> seconds]]
          ELSE Append(list, [date |-> date, seconds |-> seconds])

recordScore(list, date, seconds) ==
  IF ~isDateStr(date) THEN list
  ELSE IF raises THEN list   \* loadScores gives [], saveScores stores nothing
  ELSE LET i == findIndexDate(list, date)
       IN IF i > 0
          THEN IF seconds < list[i].seconds
               THEN [list EXCEPT ![i] = [date |-> date, seconds |-> seconds]]
               ELSE list
          ELSE Append(list, [date |-> date, seconds |-> seconds])

\* ------------------------------------------------------------------- state
VARIABLES
  dateParam,        \* params.date of the route
  puzzle,           \* clue list, NoPuzzle for null
  grid, cols, rows,
  error,
  timer, started, paused, completed,
  activeIndex, direction,
  showClearModal,
  resumeAfterModal, \* resumeAfterModalRef.current
  mounted,          \* the component is mounted
  intervals,        \* setInterval registrations alive in the browser
  effectInterval,   \* the timer effect of the last commit holds a live interval
  store,            \* localStorage nytMiniStates:v1
  scores,           \* localStorage nytMiniScoreboard:v1
  inflight,         \* load() calls waiting on fetch, by captured dateParam
  finishQ,          \* finishPuzzle calls waiting on play()
  navCount,         \* history: navigate() calls made from buttons
  events,           \* history: user events handled so far
  last,             \* history: the handler that ran last
  recorded,         \* history: seconds passed to recordScore, per date
  typed,            \* history: the cell the last typeLetter wrote and what it held
  called,           \* history: the argument of the last handler call
  cache,            \* the proxy's cache object: date -> { timestamp, data }
  clock,            \* Date.now() on the proxy, in half hours
  requests,         \* proxy handlers waiting for fetchMini
  response          \* the last response the proxy sent

browserVars == <<dateParam, puzzle, grid, cols, rows, error, timer, started, paused,
          completed, activeIndex, direction, showClearModal, resumeAfterModal,
          mounted, intervals, effectInterval,
          store, scores, storage, inflight, finishQ, navCount, events, last, recorded, typed,
          called>>

proxyVars == <<cache, clock, requests, response>>

vars == <<browserVars, proxyVars>>

\* const cache = {} and no request yet, when the proxy starts listening
NoEntry == [none |-> TRUE]
NoResponse == [none |-> TRUE]
ProxyInit ==
  /\ cache = [d \in Dates |-> NoEntry]
  /\ clock = 0 /\ requests = {} /\ response = NoResponse

\* a step of the browser: the proxy does nothing
proxyIdle == UNCHANGED proxyVars

\* whether localStorage throws during the step being taken
Storage == storage' \in IF storage = "sound" THEN {"sound"} ELSE {"works", "raises"}

currentDate == currentDateOf(dateParam)
isPlaying == started /\ ~paused /\ ~completed

\* what an earlier session may have left in localStorage: nothing, or
\* records not written by this version of persistState (a full-cell dump
\* of D1 with a lowercase letter, a foreign status, a null and an entry
\* for the blocked cell; a D2 record of another length)
StoredCell(u, s, a) == [userInput |-> u, status |-> s, answer |-> a]
ForeignD1 ==
  ProgressRec(D1, Arr(<<StoredCell("a", "correct", "Z"), StoredCell(Absent, "bogus", Absent),
                        Null, StoredCell("B", "wrong", "Z")>>), 1, TRUE, TRUE, FALSE)
ForeignD2 ==
  ProgressRec(D2, Arr(<<StoredCell("B", "correct", Absent), StoredCell("B", "wrong", Absent)>>),
              2, TRUE, FALSE, TRUE)
InitStores == { [d \in Dates |-> NoRec],
                [d \in Dates |-> IF d = D1 THEN ForeignD1 ELSE ForeignD2] }

Init ==
  /\ dateParam \in Params
  /\ puzzle = NoPuzzle /\ grid = EmptyArr /\ cols = 5 /\ rows = 5
  /\ error = ""
  /\ timer = 0 /\ started = FALSE /\ paused = FALSE /\ completed = FALSE
  /\ activeIndex = NoIndex /\ direction = "Across"
  /\ showClearModal = FALSE /\ resumeAfterModal = FALSE
  /\ mounted = TRUE /\ intervals = 0 /\ effectInterval = FALSE
  /\ store \in InitStores
  /\ scores = <<>> /\ storage = "sound" /\ ProxyInit
  /\ inflight = {[param |-> dateParam]}
  /\ finishQ = <<>>
  /\ navCount = 0
  /\ events = 0
  /\ last = [op |-> "mount"]
  /\ recorded = [d \in Dates |-> {}]
  /\ typed = NoRec /\ called = NoRec

\* -------------------------------------------------------------------- load
\* load() up to `await fetch(url)`: the twelve set-calls of lines 84-95
LoadStart(dp) ==
  /\ error' = ""
  /\ puzzle' = NoPuzzle /\ grid' = EmptyArr
  /\ started' = FALSE /\ paused' = FALSE /\ completed' = FALSE /\ timer' = 0
  /\ activeIndex' = NoIndex /\ direction' = "Across"

\* navigate(`/${p}`) from a button: the route parameter changes and the load
\* effect runs for it
navigate(p) ==
  /\ p # dateParam
  /\ Cardinality(inflight \cup {[param |-> p]}) <= MaxInflight
  /\ dateParam' = p
  /\ LoadStart(p)
  /\ inflight' = inflight \cup {[param |-> p]}
  /\ last' = [op |-> "navigate"]
  /\ UNCHANGED <<cols, rows, showClearModal, resumeAfterModal, store, scores, finishQ, recorded>>

SetLoaded(st) ==
  /\ puzzle' = st.puzzle /\ grid' = st.grid /\ cols' = st.cols /\ rows' = st.rows
  /\ timer' = st.timer /\ started' = st.started /\ paused' = st.paused
  /\ completed' = st.completed
  /\ activeIndex' = st.activeIndex /\ direction' = st.direction

\* the fetch of a load for a date resolves with a document (lines 110-194)
LoadResolveDate(l) ==
  /\ l \in inflight /\ l.param # Random
  /\ \E st \in {storageRead(store)} :
       SetLoaded(loaded(Doc(effectiveDate(l.param)), st, currentDateOf(l.param)))
  /\ inflight' = inflight \ {l}
  /\ last' = [op |-> "load", thisDate |-> currentDateOf(l.param), doc |-> effectiveDate(l.param)]
  /\ UNCHANGED <<dateParam, error, showClearModal, resumeAfterModal, store, scores, finishQ, recorded>>

\* the fetch of a load for "random" resolves with resolvedDate r: the route
\* is replaced by /r, the document is applied, and when the route parameter
\* changed the load effect runs again for r
LoadResolveRandom(l, r) ==
  /\ l \in inflight /\ l.param = Random
  /\ dateParam' = r
  /\ IF r # dateParam
     THEN /\ LoadStart(r)
          /\ cols' = newCols(Doc(r)) /\ rows' = newRows(Doc(r))
          /\ inflight' = (inflight \ {l}) \cup {[param |-> r]}
     ELSE /\ \E st \in {storageRead(store)} :
               SetLoaded(loaded(Doc(r), st, currentDateOf(l.param)))
          /\ inflight' = inflight \ {l}
          /\ error' = error
  /\ last' = [op |-> IF r # dateParam THEN "loadRandom" ELSE "load",
              thisDate |-> currentDateOf(l.param), doc |-> r]
  /\ UNCHANGED <<showClearModal, resumeAfterModal, store, scores, finishQ, recorded>>

\* the fetch reports failure (!res.ok), or the document lacks cells or
\* clues: the catch block sets error
LoadFail(l, msg) ==
  /\ l \in inflight
  /\ l.param = Random => msg = "HTTP 500"
  /\ error' = msg
  /\ inflight' = inflight \ {l}
  /\ last' = [op |-> "loadFail"]
  /\ UNCHANGED <<dateParam, puzzle, grid, cols, rows, timer, started, paused, completed,
                 activeIndex, direction, showClearModal, resumeAfterModal, store, scores,
                 finishQ, recorded>>

\* ------------------------------------------------------------------- timer
\* an interval that is never cleared: its callback fires in any state
TickUnregistered ==
  /\ timer < MaxTimer
  /\ timer' = timer + 1
  /\ last' = [op |-> "tick"]
  /\ UNCHANGED <<dateParam, puzzle, grid, cols, rows, error, started, paused, completed,
                 activeIndex, direction, showClearModal, resumeAfterModal, store, scores,
                 inflight, finishQ, recorded>>

\* the callback of a registered interval fires: setTimer((t) => t + 1)
Tick ==
  /\ intervals > 0
  /\ timer < MaxTimer
  /\ timer' = timer + 1
  /\ last' = [op |-> "tick"]
  /\ UNCHANGED <<dateParam, puzzle, grid, cols, rows, error, started, paused, completed,
                 activeIndex, direction, showClearModal, resumeAfterModal, store, scores,
                 inflight, finishQ, recorded>>

\* The commit that follows a handler: the timer effect has the dependencies
\* [started, paused, completed].  When one of them changed, the cleanup of the
\* previous run clears the interval it registered and the effect runs again,
\* registering an interval unless !started || paused || completed.
\* finishPuzzle has cleared the interval named by intervalId before that.
timerEffectNoCleanup ==
  LET running == started' /\ ~paused' /\ ~completed'
  IN IF <<started', paused', completed'>> # <<started, paused, completed>>
     THEN /\ intervals' = intervals + (IF running THEN 1 ELSE 0)
          /\ effectInterval' = running
     ELSE UNCHANGED <<intervals, effectInterval>>

timerEffect ==
  LET running == started' /\ ~paused' /\ ~completed'
      cleared == Len(finishQ') > Len(finishQ) /\ effectInterval
      alive == IF cleared THEN intervals - 1 ELSE intervals
      held == effectInterval /\ ~cleared
  IN IF <<started', paused', completed'>> # <<started, paused, completed>>
     THEN /\ intervals' = alive - (IF held THEN 1 ELSE 0) + (IF running THEN 1 ELSE 0)
          /\ effectInterval' = running
     ELSE /\ intervals' = alive
          /\ effectInterval' = held

\* the component is unmounted: the cleanup of the timer effect runs and the
\* component's state is discarded; loads still in flight can only call
\* set-functions of the unmounted component
unmount ==
  /\ mounted' = FALSE
  /\ intervals' = IF effectInterval THEN intervals - 1 ELSE intervals
  /\ effectInterval' = FALSE
  /\ puzzle' = NoPuzzle /\ grid' = EmptyArr /\ cols' = 5 /\ rows' = 5
  /\ error' = ""
  /\ timer' = 0 /\ started' = FALSE /\ paused' = FALSE /\ completed' = FALSE
  /\ activeIndex' = NoIndex /\ direction' = "Across"
  /\ showClearModal' = FALSE /\ resumeAfterModal' = FALSE
  /\ inflight' = {}
  /\ last' = [op |-> "unmount", wasRunning |-> isPlaying]
  /\ UNCHANGED <<dateParam, store, scores, finishQ, recorded>>

\* ------------------------------------------------------------- word index
Range(seq) == {seq[k] : k \in 1..Len(seq)}
MaxOf(S) == CHOOSE x \in S : \A y \in S : y <= x
MinOf(S) == CHOOSE x \in S : \A y \in S : x <= y

indexOfNone(seq, x) == 0 - 1

\* cells.indexOf(i)
indexOf(seq, x) ==
  IF x \in Range(seq) THEN MinOf({k \in 1..Len(seq) : seq[k] = x}) - 1 ELSE 0 - 1

\* indexToAcross / indexToDown: Map.set in clue order, so the last clue of
\* that direction containing the cell is the one the map holds
wordMapNone(pz, dir, i) == <<>>

wordMap(pz, dir, i) ==
  LET K == {k \in 1..Len(pz) : pz[k].direction = dir /\ i \in Range(pz[k].cells)}
  IN IF K = {} THEN <<>> ELSE pz[MaxOf(K)].cells

getWordCellsNone(i, dir) == [cells |-> <<>>, pos |-> 0 - 1]

getWordCells(i, dir) ==
  IF i = NoIndex THEN [cells |-> <<>>, pos |-> 0 - 1]
  ELSE [cells |-> wordMap(puzzle, dir, i), pos |-> indexOf(wordMap(puzzle, dir, i), i)]

cellAt(g, idx) == IF idx \in DOMAIN g THEN g[idx] ELSE Null

firstIndex(cells, g) == IF Len(cells) = 0 THEN NoIndex ELSE cells[1]

firstEditableIndex(cells, g) ==
  LET E == {k \in 1..Len(cells) : cellAt(g, cells[k]) # Null
                                   /\ cellAt(g, cells[k]).status # "correct"
                                   /\ cellAt(g, cells[k]).userInput = ""}
      N == {k \in 1..Len(cells) : cellAt(g, cells[k]) # Null
                                   /\ cellAt(g, cells[k]).status # "correct"}
  IN IF E # {} THEN cells[MinOf(E)]
     ELSE IF N # {} THEN cells[MinOf(N)]
     ELSE NoIndex

firstCellAnywhere(g) ==
  LET N == {i \in DOMAIN g : g[i] # Null}
  IN IF N = {} THEN NoIndex ELSE MinOf(N)

firstEditableAnywhere(g) ==
  LET N == {i \in DOMAIN g : g[i] # Null /\ g[i].status # "correct"}
  IN IF N = {} THEN NoIndex ELSE MinOf(N)

firstUnfilledIndex(cells, g) ==
  LET E == {k \in 1..Len(cells) : cellAt(g, cells[k]) # Null /\ cellAt(g, cells[k]).userInput = ""}
  IN IF Len(cells) = 0 THEN NoIndex
     ELSE IF E # {} THEN cells[MinOf(E)]
     ELSE cells[1]

\* ------------------------------------------------------------- persistence
persistRec(g, t, s, p, c) == ProgressRec(currentDate, stripGrid(g), t, s, p, c)

\* persistState(nextGrid, nextTimer, nextStarted, nextPaused, nextCompleted)
\* applied to the store value st
persistState(st, g, t, s, p, c) == savePuzzleState(st, currentDate, persistRec(g, t, s, p, c))

\* ------------------------------------------------------------ finishPuzzle
\* finishPuzzle(finalGrid) up to `await winAudioRef.current?.play()`:
\* setCompleted(true) and the values the continuation closes over
finishPuzzle(finalGrid) ==
  /\ Len(finishQ) < MaxPending
  /\ completed' = TRUE
  /\ finishQ' = Append(finishQ, [grid |-> finalGrid, secs |-> timer, date |-> currentDate,
                                 started |-> started, paused |-> paused])

correctedGridAsIs(g) == g

correctedGrid(g) == [i \in DOMAIN g |-> IF g[i] = Null THEN Null ELSE [g[i] EXCEPT !.status = "correct"]]

\* finishPuzzle after the await: setGrid(corrected), recordScore, persistState
finishResume ==
  /\ finishQ # <<>>
  /\ LET f == Head(finishQ)
         corrected == correctedGrid(f.grid)
     IN /\ grid' = IF mounted THEN corrected ELSE grid
        /\ scores' = recordScore(scores, f.date, f.secs)
        /\ store' = savePuzzleState(store, f.date,
                      ProgressRec(f.date, stripGrid(corrected), f.secs, f.started, f.paused, TRUE))
        /\ last' = [op |-> "finishResume"]
  /\ finishQ' = Tail(finishQ)
  /\ UNCHANGED <<dateParam, puzzle, cols, rows, error, timer, started, paused, completed,
                 activeIndex, direction, showClearModal, resumeAfterModal, inflight, recorded>>

\* ------------------------------------------------------------------- input
autoFinishNever(next) == FALSE

\* completedNow && !completed
autoFinish(next) == isAllCorrect(next) /\ ~completed

typedCellKeepStatus(c, L) == [c EXCEPT !.userInput = L]

typedCell(c, L) == [c EXCEPT !.userInput = L, !.status = IF @ = "wrong" THEN "neutral" ELSE @]

typeLetter(letter) ==
  /\ activeIndex # NoIndex
  /\ LET L == toUpperCase(letter)
         next == [i \in DOMAIN grid |->
                    IF i = activeIndex /\ grid[i] # Null THEN typedCell(grid[i], L) ELSE grid[i]]
         w == getWordCells(activeIndex, direction)
         nextPos == w.pos + 1
     IN /\ grid' = next
        /\ activeIndex' = IF Len(w.cells) > 0 /\ nextPos < Len(w.cells)
                          THEN w.cells[nextPos + 1] ELSE activeIndex
        /\ IF autoFinish(next)
           THEN finishPuzzle(next) /\ store' = store
           ELSE /\ store' = persistState(store, next, timer, started, paused, completed)
                /\ UNCHANGED <<completed, finishQ>>
  /\ last' = [op |-> "typeLetter"]
  /\ UNCHANGED <<dateParam, puzzle, cols, rows, error, timer, started, paused, direction,
                 showClearModal, resumeAfterModal, scores, inflight, recorded>>

handleBackspace ==
  /\ activeIndex # NoIndex
  /\ cellAt(grid, activeIndex) # Null
  /\ LET here == grid[activeIndex]
         w == getWordCells(activeIndex, direction)
         prevPos == IF w.pos - 1 > 0 THEN w.pos - 1 ELSE 0
         prevIdx == IF Len(w.cells) > 0 THEN w.cells[prevPos + 1] ELSE activeIndex
         target == IF here.userInput = "" THEN prevIdx ELSE activeIndex
         next == [i \in DOMAIN grid |->
                    IF i = target /\ grid[i] # Null THEN [grid[i] EXCEPT !.userInput = ""] ELSE grid[i]]
     IN /\ grid' = next
        /\ activeIndex' = target
        /\ store' = persistState(store, next, timer, started, paused, completed)
  /\ last' = [op |-> "handleBackspace"]
  /\ UNCHANGED <<dateParam, puzzle, cols, rows, error, timer, started, paused, completed,
                 direction, showClearModal, resumeAfterModal, scores, inflight, finishQ, recorded>>

handleInput(index, value) ==
  /\ cellAt(grid, index) # Null
  /\ grid[index].status # "correct"
  /\ LET next == [i \in DOMAIN grid |->
                    IF i = index /\ grid[i] # Null THEN typedCell(grid[i], toUpperCase(value))
                    ELSE grid[i]]
     IN /\ grid' = next
        /\ IF autoFinish(next)
           THEN finishPuzzle(next) /\ store' = store
           ELSE /\ store' = persistState(store, next, timer, started, paused, completed)
                /\ UNCHANGED <<completed, finishQ>>
  /\ last' = [op |-> "handleInput"]
  /\ UNCHANGED <<dateParam, puzzle, cols, rows, error, timer, started, paused, activeIndex,
                 direction, showClearModal, resumeAfterModal, scores, inflight, recorded>>

\* handleInput on a null or locked cell: the updater returns prev
handleInputIgnored(index) ==
  /\ IF cellAt(grid, index) = Null THEN TRUE ELSE grid[index].status = "correct"
  /\ last' = [op |-> "handleInputIgnored"]
  /\ UNCHANGED <<dateParam, puzzle, grid, cols, rows, error, timer, started, paused, completed,
                 activeIndex, direction, showClearModal, resumeAfterModal, store, scores,
                 inflight, finishQ, recorded>>

checkedCellExactCase(c) ==
  IF OrEmpty(c.userInput) = "" THEN [c EXCEPT !.status = "neutral"]
  ELSE [c EXCEPT !.status = IF c.userInput = OrEmpty(c.answer) THEN "correct" ELSE "wrong"]

checkedCell(c) ==
  LET expected == toUpperCase(OrEmpty(c.answer))
      actual == toUpperCase(OrEmpty(c.userInput))
  IN IF actual = "" THEN [c EXCEPT !.status = "neutral"]
     ELSE [c EXCEPT !.status = IF actual = expected THEN "correct" ELSE "wrong"]

checkAnswers ==
  /\ length(grid) # 0
  /\ LET nextGrid == [i \in DOMAIN grid |-> IF grid[i] = Null THEN Null ELSE checkedCell(grid[i])]
         inWord == firstEditableIndex(getWordCells(activeIndex, direction).cells, nextGrid)
         target == IF inWord # NoIndex THEN inWord ELSE firstEditableAnywhere(nextGrid)
     IN /\ grid' = nextGrid
        /\ IF \A i \in DOMAIN nextGrid : nextGrid[i] = Null \/ nextGrid[i].status = "correct"
           THEN /\ finishPuzzle(nextGrid)
                /\ UNCHANGED <<activeIndex, store>>
           ELSE /\ activeIndex' = IF activeIndex # NoIndex
                                     /\ cellAt(nextGrid, activeIndex) # Null
                                     /\ cellAt(nextGrid, activeIndex).status = "correct"
                                  THEN target ELSE activeIndex
                /\ store' = persistState(store, nextGrid, timer, started, paused, completed)
                /\ UNCHANGED <<completed, finishQ>>
  /\ last' = [op |-> "checkAnswers"]
  /\ UNCHANGED <<dateParam, puzzle, cols, rows, error, timer, started, paused, direction,
                 showClearModal, resumeAfterModal, scores, inflight, recorded>>

\* ------------------------------------------------------------------- timer
toggleTimerPauseOnly ==
  /\ paused' = ~paused /\ started' = started
  /\ store' = persistState(store, grid, timer, started, ~paused, completed)
  /\ last' = [op |-> "toggleTimer"]
  /\ UNCHANGED <<dateParam, puzzle, grid, cols, rows, error, timer, completed, activeIndex,
                 direction, showClearModal, resumeAfterModal, scores, inflight, finishQ, recorded>>

toggleTimer ==
  /\ IF ~started
     THEN /\ started' = TRUE /\ paused' = FALSE
          /\ store' = persistState(store, grid, timer, TRUE, FALSE, completed)
     ELSE /\ paused' = ~paused /\ started' = started
          /\ store' = persistState(store, grid, timer, started, ~paused, completed)
  /\ last' = [op |-> "toggleTimer"]
  /\ UNCHANGED <<dateParam, puzzle, grid, cols, rows, error, timer, completed, activeIndex,
                 direction, showClearModal, resumeAfterModal, scores, inflight, finishQ, recorded>>


\* -------------------------------------------------------------- navigation
navFramePersisting ==
  /\ store' = persistState(store, grid, timer, started, paused, completed)
  /\ UNCHANGED <<dateParam, puzzle, grid, cols, rows, error, timer, started, paused,
                 completed, showClearModal, resumeAfterModal, scores, inflight,
                 finishQ, recorded>>

navFrame == UNCHANGED <<dateParam, puzzle, grid, cols, rows, error, timer, started, paused,
                        completed, showClearModal, resumeAfterModal, store, scores, inflight,
                        finishQ, recorded>>

jumpToWordEdge(toEnd) ==
  /\ activeIndex # NoIndex
  /\ LET cells == getWordCells(activeIndex, direction).cells
     IN /\ Len(cells) # 0
        /\ activeIndex' = IF toEnd THEN cells[Len(cells)] ELSE cells[1]
  /\ direction' = direction
  /\ last' = [op |-> "jumpToWordEdge"]
  /\ navFrame

keepDir(d) == d

otherDir(d) == IF d = "Across" THEN "Down" ELSE "Across"

toggleDirection ==
  /\ LET nextDir == otherDir(direction)
         target == firstEditableIndex(getWordCells(activeIndex, nextDir).cells, grid)
     IN /\ activeIndex' = IF target # NoIndex THEN target ELSE activeIndex
        /\ direction' = nextDir
  /\ last' = [op |-> "toggleDirection"]
  /\ navFrame

sameRowAlways(a, b) == TRUE

sameRow(a, b) == (a \div cols) = (b \div cols)
inBounds(idx) == idx >= 0 /\ idx < length(grid)

\* the while loop of moveByArrow: the index it stops at, NoIndex for the
\* early return
arrowScanNoSkip(next, step, horizontal) == next

RECURSIVE arrowScan(_, _, _)
arrowScan(next, step, horizontal) ==
  IF inBounds(next) /\ (grid[next] = Null \/ (horizontal /\ ~sameRow(activeIndex, next)))
  THEN IF horizontal /\ ~sameRow(activeIndex, next) THEN NoIndex
       ELSE arrowScan(next + step, step, horizontal)
  ELSE next

moveByArrow(key) ==
  /\ activeIndex # NoIndex
  /\ key \in {"ArrowRight", "ArrowLeft", "ArrowDown", "ArrowUp"}
  /\ LET horizontal == key \in {"ArrowRight", "ArrowLeft"}
         step == CASE key = "ArrowRight" -> 1
                   [] key = "ArrowLeft" -> 0 - 1
                   [] key = "ArrowDown" -> cols
                   [] OTHER -> 0 - cols
         next == arrowScan(activeIndex + step, step, horizontal)
     IN IF inBounds(next) /\ grid[next] # Null
        THEN /\ activeIndex' = next
             /\ direction' = IF horizontal THEN "Across" ELSE "Down"
        ELSE UNCHANGED <<activeIndex, direction>>
  /\ last' = [op |-> "moveByArrow"]
  /\ navFrame

handleSelectClue(clue) ==
  /\ direction' = clue.direction
  /\ LET target == firstEditableIndex(clue.cells, grid)
     IN activeIndex' = IF target # NoIndex THEN target ELSE activeIndex
  /\ last' = [op |-> "handleSelectClue"]
  /\ navFrame

handleCellClick(i) ==
  /\ cellAt(grid, i) # Null
  /\ IF activeIndex = i
     THEN LET nextDir == otherDir(direction)
              target == firstEditableIndex(getWordCells(i, nextDir).cells, grid)
          IN /\ activeIndex' = IF target # NoIndex THEN target ELSE activeIndex
             /\ direction' = nextDir
     ELSE LET inAcross == Len(wordMap(puzzle, "Across", i)) > 0
              inDown == Len(wordMap(puzzle, "Down", i)) > 0
              aTarget == firstUnfilledIndex(wordMap(puzzle, "Across", i), grid)
              dTarget == firstUnfilledIndex(wordMap(puzzle, "Down", i), grid)
          IN /\ activeIndex' = i
             /\ direction' = IF inAcross /\ ~inDown THEN "Across"
                             ELSE IF ~inAcross /\ inDown THEN "Down"
                             ELSE IF aTarget # NoIndex /\ dTarget = NoIndex THEN "Across"
                             ELSE IF dTarget # NoIndex /\ aTarget = NoIndex THEN "Down"
                             ELSE direction
  /\ last' = [op |-> "handleCellClick"]
  /\ navFrame

\* handleCellClick on a blocked cell: `if (i == null || !grid[i]) return`
handleCellClickIgnored(i) ==
  /\ cellAt(grid, i) = Null
  /\ last' = [op |-> "handleCellClickIgnored"]
  /\ UNCHANGED <<activeIndex, direction>>
  /\ navFrame

\* ------------------------------------------------------------- clear modal
openClearModal ==
  /\ length(grid) # 0
  /\ resumeAfterModal' = isPlaying
  /\ IF isPlaying
     THEN /\ paused' = TRUE
          /\ store' = persistState(store, grid, timer, started, TRUE, completed)
     ELSE UNCHANGED <<paused, store>>
  /\ showClearModal' = TRUE
  /\ last' = [op |-> "openClearModal"]
  /\ UNCHANGED <<dateParam, puzzle, grid, cols, rows, error, timer, started, completed,
                 activeIndex, direction, scores, inflight, finishQ, recorded>>

\* closeClearModal(), on the state of the render the calling handler was
\* created in, applied to the store value st
closeStore(st) ==
  IF resumeAfterModal /\ ~completed
  THEN persistState(st, grid, timer, started, FALSE, completed)
  ELSE st

closeClearModal ==
  /\ showClearModal' = FALSE
  /\ paused' = IF resumeAfterModal /\ ~completed THEN FALSE ELSE paused
  /\ store' = closeStore(store)
  /\ resumeAfterModal' = FALSE
  /\ last' = [op |-> "closeClearModal"]
  /\ UNCHANGED <<dateParam, puzzle, grid, cols, rows, error, timer, started, completed,
                 activeIndex, direction, scores, inflight, finishQ, recorded>>

clearedCellExactCase(c) ==
  IF c.userInput # "" /\ c.userInput = c.answer THEN c
  ELSE [c EXCEPT !.userInput = "", !.status = "neutral"]

clearedCell(c) ==
  LET exp == toUpperCase(OrEmpty(c.answer))
      act == toUpperCase(OrEmpty(c.userInput))
  IN IF act # "" /\ act = exp THEN c ELSE [c EXCEPT !.userInput = "", !.status = "neutral"]

clearErrors ==
  /\ LET cleared == [i \in DOMAIN grid |-> IF grid[i] = Null THEN Null ELSE clearedCell(grid[i])]
     IN /\ grid' = cleared
        /\ store' = closeStore(savePuzzleState(store, currentDate,
                       ProgressRec(currentDate, stripGrid(cleared), timer, started, TRUE, FALSE)))
  /\ showClearModal' = FALSE
  /\ paused' = IF resumeAfterModal /\ ~completed THEN FALSE ELSE paused
  /\ resumeAfterModal' = FALSE
  /\ last' = [op |-> "clearErrors"]
  /\ UNCHANGED <<dateParam, puzzle, cols, rows, error, timer, started, completed,
                 activeIndex, direction, scores, inflight, finishQ, recorded>>

resetCellKeepStatus(c) == [c EXCEPT !.userInput = ""]

resetCell(c) == [c EXCEPT !.userInput = "", !.status = "neutral"]

\* the store after clearAll: clearPuzzleState, savePuzzleState of the reset
\* record, then closeClearModal
clearAllStore(st, cleared) ==
  closeStore(savePuzzleState(clearPuzzleState(st, currentDate), currentDate,
                             ProgressRec(currentDate, stripGrid(cleared), 0, FALSE, FALSE, FALSE)))

clearAllWithScores ==
  /\ LET cleared == [i \in DOMAIN grid |-> IF grid[i] = Null THEN Null ELSE resetCell(grid[i])]
     IN /\ grid' = cleared
        /\ store' = clearAllStore(store, cleared)
  /\ timer' = 0 /\ started' = FALSE /\ paused' = FALSE /\ completed' = FALSE
  /\ showClearModal' = FALSE
  /\ resumeAfterModal' = FALSE
  /\ scores' = <<>>
  /\ last' = [op |-> "clearAll", wasStarted |-> started, wasCompleted |-> completed]
  /\ UNCHANGED <<dateParam, puzzle, cols, rows, error, activeIndex, direction,
                 inflight, finishQ, recorded>>

clearAll ==
  /\ LET cleared == [i \in DOMAIN grid |-> IF grid[i] = Null THEN Null ELSE resetCell(grid[i])]
     IN /\ grid' = cleared
        /\ store' = clearAllStore(store, cleared)
  /\ timer' = 0 /\ started' = FALSE /\ paused' = FALSE /\ completed' = FALSE
  /\ showClearModal' = FALSE
  /\ resumeAfterModal' = FALSE
  /\ last' = [op |-> "clearAll", wasStarted |-> started, wasCompleted |-> completed]
  /\ UNCHANGED <<dateParam, puzzle, cols, rows, error, activeIndex, direction, scores,
                 inflight, finishQ, recorded>>

\* visibilitychange / beforeunload listener
persistNow ==
  /\ store' = persistState(store, grid, timer, started, paused, completed)
  /\ last' = [op |-> "persistNow"]
  /\ UNCHANGED <<dateParam, puzzle, grid, cols, rows, error, timer, started, paused, completed,
                 activeIndex, direction, showClearModal, resumeAfterModal, scores, inflight,
                 finishQ, recorded>>

\* ---------------------------------------------------------------- the UI
Keys == {"a", "b"}
Values == {"a", "b", ""}
ArrowKeys == {"ArrowRight", "ArrowLeft", "ArrowDown", "ArrowUp"}

\* a user event (key, click, visibility change) / a step of the environment
\* (a fetch resolving, the interval firing, play() resolving)
User ==
  /\ Storage
  /\ proxyIdle
  /\ mounted /\ mounted' = mounted
  /\ events < MaxEvents /\ events' = events + 1 /\ navCount' = navCount /\ typed' = typed
  /\ called' = called
Env ==
  /\ Storage
  /\ proxyIdle
  /\ mounted /\ mounted' = mounted /\ events' = events /\ navCount' = navCount /\ typed' = typed
  /\ called' = called

\* onKeyDown of the card: ignored unless started && !paused
KeyLetter == User /\ started /\ ~paused /\ (\E k \in Keys : typeLetter(k)) /\ timerEffect
KeyArrow == User /\ started /\ ~paused /\ (\E k \in ArrowKeys : moveByArrow(k)) /\ timerEffect
KeyBackspace == User /\ started /\ ~paused /\ handleBackspace /\ timerEffect
KeyToggle == User /\ started /\ ~paused /\ toggleDirection /\ timerEffect
KeyHomeEnd == User /\ started /\ ~paused /\ (\E e \in BOOLEAN : jumpToWordEdge(e)) /\ timerEffect

\* CrosswordGrid is rendered when error is empty; the cell button and its
\* input exist for cells with a string answer and act only when not disabled
\* (disabled = !isPlaying)
CellClick ==
  /\ User /\ error = "" /\ isPlaying
  /\ \E i \in DOMAIN grid : cellAt(grid, i) # Null /\ grid[i].answer # Absent /\ handleCellClick(i)
  /\ timerEffect
InputChange ==
  /\ User /\ error = "" /\ isPlaying
  /\ \E i \in DOMAIN grid, v \in Values :
       /\ cellAt(grid, i) # Null /\ grid[i].answer # Absent
       /\ (handleInput(i, v) \/ handleInputIgnored(i))
  /\ timerEffect

\* ClueList is rendered when started && !paused
ClueClick ==
  User /\ started /\ ~paused /\ (\E k \in 1..Len(puzzle) : handleSelectClue(puzzle[k])) /\ timerEffect

\* the Check Answers button is disabled when !started || paused
CheckClick == User /\ started /\ ~paused /\ checkAnswers /\ timerEffect

TimerClick == User /\ toggleTimer /\ timerEffect
ClearClick == User /\ openClearModal /\ timerEffect
\* ConfirmClearModal: its buttons exist while open; Clear errors is disabled by
\* disabledClearErrors = completed || isAllCorrect(grid)
ModalClose == User /\ showClearModal /\ closeClearModal /\ timerEffect
ModalClearErrors ==
  User /\ showClearModal /\ ~(completed \/ isAllCorrect(grid)) /\ clearErrors /\ timerEffect
ModalClearAll == User /\ showClearModal /\ clearAll /\ timerEffect
VisibilityChange == User /\ persistNow /\ timerEffect

\* the Random / first available / today buttons
Navigate ==
  /\ Storage
  /\ proxyIdle
  /\ mounted /\ mounted' = mounted
  /\ events < MaxEvents /\ events' = events + 1
  /\ navCount < MaxNav /\ navCount' = navCount + 1 /\ typed' = typed /\ called' = called
  /\ \E p \in Params : navigate(p)
  /\ timerEffect

LoadResolve ==
  /\ Env
  /\ \E l \in inflight :
       \/ LoadResolveDate(l)
       \/ \E r \in Dates : LoadResolveRandom(l, r)
  /\ timerEffect
LoadError ==
  Env /\ (\E l \in inflight, m \in {"HTTP 500", "Malformed NYT payload"} : LoadFail(l, m)) /\ timerEffect
TimerTick == Env /\ Tick /\ timerEffect

\* play() resolves; the continuation also runs when the component has been
\* unmounted meanwhile
PlayResolve ==
  /\ Storage
  /\ proxyIdle
  /\ mounted' = mounted /\ events' = events /\ navCount' = navCount /\ typed' = typed
  /\ called' = called
  /\ finishResume
  /\ timerEffect

\* the route leaves the puzzle page or the root is torn down
Unmount ==
  /\ Storage
  /\ proxyIdle
  /\ mounted /\ events < MaxEvents /\ events' = events + 1 /\ navCount' = navCount
  /\ typed' = typed /\ called' = called
  /\ unmount

Next ==
  \/ Navigate \/ LoadResolve \/ LoadError
  \/ TimerTick \/ TimerClick
  \/ KeyLetter \/ KeyArrow \/ KeyBackspace \/ KeyToggle \/ KeyHomeEnd
  \/ CellClick \/ InputChange \/ ClueClick \/ CheckClick
  \/ PlayResolve
  \/ ClearClick \/ ModalClose \/ ModalClearErrors \/ ModalClearAll
  \/ VisibilityChange
  \/ Unmount

Spec == Init /\ [][Next]_vars


\* ------------------------------------------- isAllCorrect on bounded grids
\* every grid of at most MaxLen cells over blocked cells and cells with an
\* upper-case, lower-case or missing answer, any input and any status
PureCells ==
  {Null} \cup [answer : {"A", "b", Absent}, label : {Absent},
               userInput : {"", "a", "A", "B"}, status : {"neutral", "correct", "wrong"}]
PureGrids == UNION {[0..(n - 1) -> PureCells] : n \in 0..MaxLen}

restVars == <<dateParam, puzzle, cols, rows, error, timer, started, paused, completed,
              activeIndex, direction, showClearModal, resumeAfterModal, store, inflight,
              finishQ, navCount, events, mounted, intervals, effectInterval>>

InitRest ==
  /\ dateParam = D1
  /\ puzzle = NoPuzzle /\ cols = 5 /\ rows = 5
  /\ error = ""
  /\ timer = 0 /\ started = FALSE /\ paused = FALSE /\ completed = FALSE
  /\ activeIndex = NoIndex /\ direction = "Across"
  /\ showClearModal = FALSE /\ resumeAfterModal = FALSE
  /\ mounted = TRUE /\ intervals = 0 /\ effectInterval = FALSE
  /\ store = [d \in Dates |-> NoRec]
  /\ inflight = {}
  /\ finishQ = <<>>
  /\ navCount = 0 /\ events = 0
  /\ storage = "sound" /\ ProxyInit

InitAllCorrect ==
  /\ InitRest
  /\ grid \in PureGrids
  /\ scores = <<>> /\ recorded = [d \in Dates |-> {}]
  /\ last = [op |-> "mount"] /\ typed = NoRec /\ called = NoRec

ApplyIsAllCorrect ==
  /\ Storage
  /\ proxyIdle
  /\ last.op = "mount"
  /\ last' = [op |-> "isAllCorrect", result |-> isAllCorrect(grid)]
  /\ UNCHANGED <<grid, scores, recorded, typed, called>>
  /\ UNCHANGED restVars

NextAllCorrect == ApplyIsAllCorrect

SpecAllCorrect == InitAllCorrect /\ [][NextAllCorrect]_vars

\* ------------------------------------------------ recordScore call by call
InitScores ==
  /\ InitRest
  /\ grid = EmptyArr
  /\ scores = <<>> /\ recorded = [d \in Dates |-> {}]
  /\ last = [op |-> "mount"] /\ typed = NoRec /\ called = NoRec

RecordScoreCall ==
  /\ Storage
  /\ proxyIdle
  /\ \E d \in Dates \cup {Random}, sec \in 0..MaxSeconds :
       /\ scores' = recordScore(scores, d, sec)
       /\ recorded' = IF isDateStr(d) THEN [recorded EXCEPT ![d] = @ \cup {sec}] ELSE recorded
       /\ last' = [op |-> "recordScore", date |-> d, seconds |-> sec, before |-> scores]
  /\ UNCHANGED <<grid, typed, called>>
  /\ UNCHANGED restVars

NextScores == RecordScoreCall

SpecScores == InitScores /\ [][NextScores]_vars

\* ------------------------------------------- keys on a word of three cells
\* A running puzzle of one row: 1-Across over the cells 0, 1, 2 and cell 3 in
\* no clue; no cell has a Down word.  Every cell is empty, filled, filled and
\* locked, or filled and marked wrong; the cursor is on any cell in either
\* direction.  Letter keys and Backspace are then pressed.
MaxKeys == 2

KeysDoc ==
  [cells |-> Arr(<<RawCell(1, "B", "1"), RawCell(1, "B", Absent),
                   RawCell(1, "B", Absent), RawCell(1, "B", Absent)>>),
   clues |-> <<RawClue("1", "Across", <<0, 1, 2>>)>>,
   hasDims |-> TRUE, cols |-> 4, rows |-> 1]

KeysFills ==
  {[userInput |-> "", status |-> "neutral"], [userInput |-> "B", status |-> "neutral"],
   [userInput |-> "B", status |-> "correct"], [userInput |-> "A", status |-> "wrong"]}

InitKeys ==
  /\ dateParam = D1
  /\ puzzle = corePuzzle(KeysDoc) /\ cols = newCols(KeysDoc) /\ rows = newRows(KeysDoc)
  /\ \E f \in [DOMAIN initialGrid(KeysDoc) -> KeysFills] :
       grid = [i \in DOMAIN f |-> [initialGrid(KeysDoc)[i] EXCEPT
                                     !.userInput = f[i].userInput, !.status = f[i].status]]
  /\ error = ""
  /\ timer = 0 /\ started = TRUE /\ paused = FALSE /\ completed = FALSE
  /\ activeIndex \in DOMAIN initialGrid(KeysDoc) /\ direction \in {"Across", "Down"}
  /\ showClearModal = FALSE /\ resumeAfterModal = FALSE
  /\ mounted = TRUE /\ intervals = 1 /\ effectInterval = TRUE
  /\ store = [d \in Dates |-> NoRec]
  /\ scores = <<>> /\ storage = "sound" /\ ProxyInit
  /\ inflight = {}
  /\ finishQ = <<>>
  /\ navCount = 0 /\ events = 0
  /\ last = [op |-> "mount"]
  /\ recorded = [d \in Dates |-> {}]
  /\ typed = NoRec /\ called = NoRec

KeyPressed ==
  /\ Storage
  /\ proxyIdle
  /\ started /\ ~paused
  /\ events < MaxKeys /\ events' = events + 1
  /\ mounted' = mounted /\ navCount' = navCount /\ called' = called

PressLetter ==
  /\ KeyPressed
  /\ \E k \in Keys :
       /\ typeLetter(k)
       /\ typed' = [at |-> activeIndex, prior |-> grid[activeIndex].userInput, letter |-> k]
  /\ timerEffect

PressBackspace == KeyPressed /\ handleBackspace /\ typed' = typed /\ timerEffect

NextKeys == PressLetter \/ PressBackspace

SpecKeys == InitKeys /\ [][NextKeys]_vars

\* --------------------------------------------- handlers on a grid of 2 x 3
\* A running puzzle of two rows of three cells, cell 4 blocked:
\*      0 1 2        1-Across = 0, 1, 2      1-Down = 0, 3
\*      3 # 5        cell 5 is in no clue
\* The cells of the two words are empty, hold the right letter (checked or
\* not) or a wrong letter; the cursor is on any playable cell in either
\* direction.  The handlers are then called, handleCellClick also on the
\* blocked cell.
MaxMoves == 2

GridDoc ==
  [cells |-> Arr(<<RawCell(1, "B", "1"), RawCell(1, "B", Absent), RawCell(1, "B", Absent),
                   RawCell(1, "B", Absent), RawCell(0, Absent, Absent), RawCell(1, "B", Absent)>>),
   clues |-> <<RawClue("1", "Across", <<0, 1, 2>>), RawClue("1", "Down", <<0, 3>>)>>,
   hasDims |-> TRUE, cols |-> 3, rows |-> 2]

GridFills ==
  {[userInput |-> "", status |-> "neutral"], [userInput |-> "B", status |-> "neutral"],
   [userInput |-> "B", status |-> "correct"], [userInput |-> "A", status |-> "neutral"]}

filledGrid(g, f) ==
  [i \in DOMAIN g |-> IF i \in DOMAIN f /\ g[i] # Null
                       THEN [g[i] EXCEPT !.userInput = f[i].userInput, !.status = f[i].status]
                       ELSE g[i]]

InitRunning ==
  /\ dateParam = D1
  /\ error = ""
  /\ timer = 0 /\ started = TRUE /\ paused = FALSE /\ completed = FALSE
  /\ showClearModal = FALSE /\ resumeAfterModal = FALSE
  /\ mounted = TRUE /\ intervals = 1 /\ effectInterval = TRUE
  /\ store = [d \in Dates |-> NoRec]
  /\ scores = <<>> /\ storage = "sound" /\ ProxyInit
  /\ inflight = {}
  /\ finishQ = <<>>
  /\ navCount = 0 /\ events = 0
  /\ last = [op |-> "mount"]
  /\ recorded = [d \in Dates |-> {}]
  /\ typed = NoRec /\ called = NoRec

InitGrid ==
  /\ InitRunning
  /\ puzzle = corePuzzle(GridDoc) /\ cols = newCols(GridDoc) /\ rows = newRows(GridDoc)
  /\ \E f \in [0..3 -> GridFills] : grid = filledGrid(initialGrid(GridDoc), f)
  /\ activeIndex \in {i \in DOMAIN initialGrid(GridDoc) : initialGrid(GridDoc)[i] # Null}
  /\ direction \in {"Across", "Down"}

Called ==
  /\ Storage
  /\ proxyIdle
  /\ events < MaxMoves /\ events' = events + 1
  /\ mounted' = mounted /\ navCount' = navCount /\ typed' = typed

CallArrow == Called /\ (\E k \in ArrowKeys : moveByArrow(k) /\ called' = [key |-> k, from |-> activeIndex, dir |-> direction]) /\ timerEffect
CallHomeEnd ==
  Called /\ (\E e \in BOOLEAN : jumpToWordEdge(e) /\ called' = [toEnd |-> e]) /\ timerEffect
CallToggle ==
  /\ Called
  /\ toggleDirection
  /\ called' = [from |-> activeIndex, dir |-> direction,
                twice |-> last.op = "toggleDirection",
                first |-> IF last.op = "toggleDirection" THEN called.dir ELSE direction]
  /\ timerEffect
CallCellClick ==
  /\ Called
  /\ \E i \in DOMAIN grid :
       /\ handleCellClick(i) \/ handleCellClickIgnored(i)
       /\ called' = [index |-> i, from |-> activeIndex, dir |-> direction]
  /\ timerEffect
CallSelectClue ==
  /\ Called
  /\ \E k \in 1..Len(puzzle) : handleSelectClue(puzzle[k]) /\ called' = [clue |-> puzzle[k], from |-> activeIndex, dir |-> direction]
  /\ timerEffect
CallCheck == Called /\ checkAnswers /\ called' = [from |-> activeIndex] /\ timerEffect

NextGrid == CallArrow \/ CallHomeEnd \/ CallToggle \/ CallCellClick \/ CallSelectClue \/ CallCheck

SpecGrid == InitGrid /\ [][NextGrid]_vars

\* ------------------------------------------------- handleInput on any index
\* The grid of GridDoc with, in addition, cells marked wrong; handleInput is
\* called with every index of the grid, the blocked one included, and every
\* value.
InputFills == GridFills \cup {[userInput |-> "A", status |-> "wrong"]}

InitInput ==
  /\ InitRunning
  /\ puzzle = corePuzzle(GridDoc) /\ cols = newCols(GridDoc) /\ rows = newRows(GridDoc)
  /\ \E f \in [0..3 -> InputFills] : grid = filledGrid(initialGrid(GridDoc), f)
  /\ activeIndex \in {0, 5}
  /\ direction = "Across"

CallInput ==
  /\ Called
  /\ \E i \in DOMAIN grid, v \in Values :
       /\ handleInput(i, v) \/ handleInputIgnored(i)
       /\ called' = [index |-> i, value |-> v]
  /\ timerEffect

SpecInput == InitInput /\ [][CallInput]_vars

\* ------------------------------------------ from a puzzle finished by typing
\* The state Spec reaches by Start, b, a on the puzzle of D2 with an empty
\* store: both letters in, completed set, the continuation of finishPuzzle
\* waiting on play(), the record of the first letter stored.  Events are
\* counted on from there.
typedGrid(g, letters) ==
  [i \in DOMAIN g |-> IF g[i] # Null /\ i < Len(letters)
                       THEN [g[i] EXCEPT !.userInput = letters[i + 1]] ELSE g[i]]

InitAfterFinish ==
  /\ dateParam = D2
  /\ puzzle = corePuzzle(Doc(D2)) /\ cols = newCols(Doc(D2)) /\ rows = newRows(Doc(D2))
  /\ grid = typedGrid(initialGrid(Doc(D2)), <<"B", "A">>)
  /\ error = ""
  /\ timer = 0 /\ started = TRUE /\ paused = FALSE /\ completed = TRUE
  /\ activeIndex = 1 /\ direction = "Across"
  /\ showClearModal = FALSE /\ resumeAfterModal = FALSE
  /\ mounted = TRUE /\ intervals = 0 /\ effectInterval = FALSE
  /\ store = [d \in Dates |->
                IF d = D2 THEN ProgressRec(D2, stripGrid(typedGrid(initialGrid(Doc(D2)), <<"B">>)),
                                           0, TRUE, FALSE, FALSE)
                ELSE NoRec]
  /\ scores = <<>> /\ storage = "sound" /\ ProxyInit
  /\ inflight = {}
  /\ finishQ = <<[grid |-> grid, secs |-> 0, date |-> D2, started |-> TRUE, paused |-> FALSE]>>
  /\ navCount = 0 /\ events = 2
  /\ last = [op |-> "typeLetter"]
  /\ recorded = [d \in Dates |-> {}]
  /\ typed = NoRec /\ called = NoRec

SpecAfterFinish == InitAfterFinish /\ [][Next]_vars

\* ------------------------------------------------------------- fresh loads
\* The application opened in a browser whose localStorage holds nothing.
InitFresh == Init /\ store = [d \in Dates |-> NoRec]

SpecFresh == InitFresh /\ [][Next]_vars

\* ------------------------------------------------------ onKeyDown, any key
\* The card's onKeyDown as a whole, on the grid of GridDoc with cells empty
\* or filled, before the start, while running, and while paused.
AllKeys == Keys \cup ArrowKeys \cup {"Backspace", " ", "Tab", "Enter", "Home", "End", "Escape"}

keysHandledAlways == TRUE

\* the negation of `if (!started || paused) return`
keysHandled == started /\ ~paused

onKeyDownIgnored ==
  /\ last' = [op |-> "onKeyDownIgnored"]
  /\ UNCHANGED <<dateParam, puzzle, grid, cols, rows, error, timer, started, paused, completed,
                 activeIndex, direction, showClearModal, resumeAfterModal, store, scores,
                 inflight, finishQ, recorded>>

onKeyDown(key) ==
  IF ~keysHandled THEN onKeyDownIgnored
  ELSE CASE key \in Keys -> typeLetter(key)
         [] key \in ArrowKeys -> moveByArrow(key)
         [] key = "Backspace" -> handleBackspace
         [] key \in {" ", "Tab", "Enter"} -> toggleDirection
         [] key = "Home" -> jumpToWordEdge(FALSE)
         [] key = "End" -> jumpToWordEdge(TRUE)
         [] OTHER -> onKeyDownIgnored

KeyDownFills ==
  {[userInput |-> "", status |-> "neutral"], [userInput |-> "B", status |-> "neutral"]}

InitKeyDown ==
  /\ dateParam = D1
  /\ puzzle = corePuzzle(GridDoc) /\ cols = newCols(GridDoc) /\ rows = newRows(GridDoc)
  /\ \E f \in [0..3 -> KeyDownFills] : grid = filledGrid(initialGrid(GridDoc), f)
  /\ error = ""
  /\ timer = 0 /\ started \in BOOLEAN /\ paused \in BOOLEAN /\ completed = FALSE
  /\ activeIndex \in {0, 1, 3} /\ direction \in {"Across", "Down"}
  /\ showClearModal = FALSE /\ resumeAfterModal = FALSE
  /\ mounted = TRUE
  /\ effectInterval = (started /\ ~paused)
  /\ intervals = IF effectInterval THEN 1 ELSE 0
  /\ store = [d \in Dates |-> NoRec]
  /\ scores = <<>> /\ storage = "sound" /\ ProxyInit
  /\ inflight = {}
  /\ finishQ = <<>>
  /\ navCount = 0 /\ events = 0
  /\ last = [op |-> "mount"]
  /\ recorded = [d \in Dates |-> {}]
  /\ typed = NoRec /\ called = NoRec

KeyDown ==
  /\ Storage
  /\ proxyIdle
  /\ events < MaxKeys /\ events' = events + 1
  /\ mounted' = mounted /\ navCount' = navCount /\ typed' = typed
  /\ \E key \in AllKeys : onKeyDown(key) /\ called' = [key |-> key]
  /\ timerEffect

SpecKeyDown == InitKeyDown /\ [][KeyDown]_vars

\* ------------------------------------------------------------------ proxy
\* The Express proxy in front of the NYT endpoint.  The browser is left as
\* it is after mounting; the steps are those of the two puzzle routes, the
\* two cache routes and the passing of time.
MaxClock == 3       \* half hours that pass
MaxWaiting == 1     \* handlers waiting for the upstream at once

CACHE_TTL == 2      \* 1000 * 60 * 60 ms, in half hours
FIRST_DATE == "2014-08-21"
Statuses == {200, 404}   \* what the upstream answers
Attempts == 5

\* the text the upstream sent for a date, told apart by the status it came with
Body(date, status) == [date |-> date, upstream |-> status]
ProxyError == [date |-> Absent, upstream |-> 0]

ReqParams == Dates \cup {"2024-1-1", "2014-08-20", "2024-01-03"}

\* validateDateMiddleware: 0 for next(), else the status it answers with
validateDateMiddleware(date) ==
  IF date = "2024-1-1" THEN 400         \* !isValidDateStr(date)
  ELSE IF date = "2014-08-20" THEN 400   \* before FIRST_DATE
  ELSE IF date = "2024-01-03" THEN 400   \* after todayISO()
  ELSE 0

Sent(route, status, body, cached, age) ==
  [route |-> route, status |-> status, body |-> body, cached |-> cached, age |-> age]

cacheFresh(date) == cache[date] # NoEntry /\ clock - cache[date].timestamp < CACHE_TTL

\* GET /puzzle/mini/:date.json up to `await fetchMini(date)`
DateRequest(date) ==
  IF validateDateMiddleware(date) # 0
  THEN /\ response' = Sent("date", validateDateMiddleware(date), ProxyError, FALSE, 0)
       /\ UNCHANGED <<cache, requests>>
  ELSE IF cacheFresh(date)
  THEN /\ response' = Sent("date", 200, cache[date].data, TRUE, clock - cache[date].timestamp)
       /\ UNCHANGED <<cache, requests>>
  ELSE /\ Cardinality(requests \cup {[route |-> "date", date |-> date, now |-> clock]}) <= MaxWaiting
       /\ requests' = requests \cup {[route |-> "date", date |-> date, now |-> clock]}
       /\ UNCHANGED <<cache, response>>

storeAnyStatus(rq, status) ==
  [cache EXCEPT ![rq.date] = [timestamp |-> rq.now, data |-> Body(rq.date, status)]]

\* the date route after fetchMini resolved with a status
DateFetched(rq, status) ==
  /\ rq \in requests /\ rq.route = "date"
  /\ cache' = storeAnyStatus(rq, status)
  /\ response' = Sent("date", status, Body(rq.date, status), FALSE, 0)
  /\ requests' = requests \ {rq}

\* the date route when fetch rejects: the catch block
DateFetchThrows(rq) ==
  /\ rq \in requests /\ rq.route = "date"
  /\ response' = Sent("date", 500, ProxyError, FALSE, 0)
  /\ requests' = requests \ {rq}
  /\ cache' = cache

\* GET /puzzle/mini/random.json up to the first `await fetchMini(date)`
RandomRequest(date) ==
  /\ Cardinality(requests \cup {[route |-> "random", date |-> date, attempt |-> 0]}) <= MaxWaiting
  /\ requests' = requests \cup {[route |-> "random", date |-> date, attempt |-> 0]}
  /\ UNCHANGED <<cache, response>>

\* an attempt of the random route resolved: 200 caches and answers, another
\* status goes round the loop, and after the last attempt to the fallback
RandomFetched(rq, status, nextDate) ==
  /\ rq \in requests /\ rq.route = "random" /\ rq.attempt < Attempts
  /\ IF status = 200
     THEN /\ cache' = [cache EXCEPT ![rq.date] = [timestamp |-> clock, data |-> Body(rq.date, 200)]]
          /\ response' = Sent("random", 200, Body(rq.date, 200), FALSE, 0)
          /\ requests' = requests \ {rq}
     ELSE /\ requests' = (requests \ {rq}) \cup
                           {[route |-> "random",
                             date |-> IF rq.attempt + 1 < Attempts THEN nextDate ELSE FIRST_DATE,
                             attempt |-> rq.attempt + 1]}
          /\ UNCHANGED <<cache, response>>

\* the fallback fetch resolved: the body is parsed and sent whatever the
\* status; a body that is not JSON throws into the catch block
RandomFallbackFetched(rq, status, parses) ==
  /\ rq \in requests /\ rq.route = "random" /\ rq.attempt = Attempts
  /\ response' = IF status = 200 \/ parses
                 THEN Sent("random", 200, Body(FIRST_DATE, status), FALSE, 0)
                 ELSE Sent("random", 500, ProxyError, FALSE, 0)
  /\ requests' = requests \ {rq}
  /\ cache' = cache

\* fetch rejects inside the random route
RandomFetchThrows(rq) ==
  /\ rq \in requests /\ rq.route = "random"
  /\ response' = Sent("random", 500, ProxyError, FALSE, 0)
  /\ requests' = requests \ {rq}
  /\ cache' = cache

\* GET /cache/clear
CacheClear ==
  /\ cache' = [d \in Dates |-> NoEntry]
  /\ response' = Sent("cache", 200, ProxyError, FALSE, 0)
  /\ requests' = requests

\* GET /cache/clear/:date
CacheClearDate(date) ==
  /\ cache' = [cache EXCEPT ![date] = NoEntry]
  /\ response' = Sent("cache", 200, ProxyError, FALSE, 0)
  /\ requests' = requests

proxyFrame == clock' = clock /\ UNCHANGED browserVars

TimePasses ==
  /\ clock < MaxClock /\ clock' = clock + 1
  /\ UNCHANGED <<cache, requests, response>> /\ UNCHANGED browserVars

NextProxy ==
  \/ \E date \in ReqParams : DateRequest(date) /\ proxyFrame
  \/ \E rq \in requests : \E status \in Statuses : DateFetched(rq, status) /\ proxyFrame
  \/ \E rq \in requests : DateFetchThrows(rq) /\ proxyFrame
  \/ \E date \in Dates : RandomRequest(date) /\ proxyFrame
  \/ \E rq \in requests : \E status \in Statuses : \E nextDate \in Dates :
       RandomFetched(rq, status, nextDate) /\ proxyFrame
  \/ \E rq \in requests : \E status \in Statuses : \E parses \in BOOLEAN :
       RandomFallbackFetched(rq, status, parses) /\ proxyFrame
  \/ \E rq \in requests : RandomFetchThrows(rq) /\ proxyFrame
  \/ CacheClear /\ proxyFrame
  \/ \E date \in Dates : CacheClearDate(date) /\ proxyFrame
  \/ TimePasses

InitProxy == Init /\ dateParam = D1 /\ store = [d \in Dates |-> NoRec]

SpecProxy == InitProxy /\ [][NextProxy]_vars

\* ------------------------------------------------ localStorage that may throw
\* The run of Spec in a browser whose localStorage may throw in any step,
\* for MaxFaulty user events, from the mount and from the state Spec reaches
\* by Start, b on the puzzle of D2 with an empty store.
MaxFaulty == 2

InitMounting ==
  /\ dateParam \in Params
  /\ puzzle = NoPuzzle /\ grid = EmptyArr /\ cols = 5 /\ rows = 5
  /\ timer = 0 /\ started = FALSE /\ paused = FALSE
  /\ activeIndex = NoIndex /\ direction = "Across"
  /\ intervals = 0 /\ effectInterval = FALSE
  /\ store \in InitStores
  /\ inflight = {[param |-> dateParam]}
  /\ last = [op |-> "mount"]

InitTyping ==
  /\ dateParam = D2
  /\ puzzle = corePuzzle(Doc(D2)) /\ cols = newCols(Doc(D2)) /\ rows = newRows(Doc(D2))
  /\ grid = typedGrid(initialGrid(Doc(D2)), <<"B">>)
  /\ timer = 0 /\ started = TRUE /\ paused = FALSE
  /\ activeIndex = 1 /\ direction = "Across"
  /\ intervals = 1 /\ effectInterval = TRUE
  /\ store = [d \in Dates |->
                IF d = D2 THEN ProgressRec(D2, stripGrid(grid), 0, TRUE, FALSE, FALSE) ELSE NoRec]
  /\ inflight = {}
  /\ last = [op |-> "typeLetter"]

InitFaulty ==
  /\ InitMounting \/ InitTyping
  /\ error = "" /\ completed = FALSE
  /\ showClearModal = FALSE /\ resumeAfterModal = FALSE
  /\ mounted = TRUE
  /\ scores = <<>> /\ storage = "works" /\ ProxyInit
  /\ finishQ = <<>>
  /\ navCount = 0
  /\ events = MaxEvents - MaxFaulty
  /\ recorded = [d \in Dates |-> {}]
  /\ typed = NoRec /\ called = NoRec

SpecFaulty == InitFaulty /\ [][Next]_vars

\* ================================================================== claims

\* C1: after typeLetter or handleInput has produced a grid for which
\* isAllCorrect holds, the puzzle is completed (completed was false before and
\* became true, or was already true); typing the only word of D2 in order
\* from its first cell ends with completed = TRUE.
AutoFinishCompletes ==
  (last.op \in {"typeLetter", "handleInput"} /\ isAllCorrect(grid)) => completed

\* the only word of D2 typed in order: cursor at its last cell, all letters
\* in, finishPuzzle just called on this grid
AutoFinishWitness ==
  /\ last.op = "typeLetter"
  /\ puzzle = corePuzzle(Doc(D2)) /\ activeIndex = 1 /\ direction = "Across"
  /\ grid[0].userInput = "B" /\ grid[1].userInput = "A"
  /\ grid[0].status = "neutral"
  /\ completed
  /\ finishQ # <<>> /\ Head(finishQ).grid = grid

\* C2: isAllCorrect(grid) is true iff the grid is non-empty and every
\* non-null cell's userInput equals its answer ignoring case; null cells and
\* cell status do not enter the result.
fold(x) == CASE x = "A" -> "a" [] x = "B" -> "b" [] x = Absent -> "" [] OTHER -> x
playableIdx(g) == {i \in DOMAIN g : g[i] # Null}
neutralised(g) == [i \in DOMAIN g |-> IF g[i] = Null THEN Null ELSE [g[i] EXCEPT !.status = "neutral"]]
AllCorrectIff ==
  last.op = "isAllCorrect" =>
    /\ last.result <=> /\ DOMAIN grid # {}
                       /\ \A i \in playableIdx(grid) : fold(grid[i].userInput) = fold(grid[i].answer)
    /\ last.result <=> isAllCorrect(neutralised(grid))

\* a blocked cell next to a cell marked wrong whose input matches its
\* lower-case answer only ignoring case: all correct
AllCorrectWitness ==
  /\ last.op = "isAllCorrect" /\ last.result
  /\ \E i, j \in DOMAIN grid :
       /\ grid[i] = Null
       /\ grid[j] # Null /\ grid[j].answer = "b" /\ grid[j].userInput = "B"
       /\ grid[j].status = "wrong"

\* C3: after any sequence of recordScore calls with valid dates the list
\* holds at most one entry per date, whose seconds is the minimum recorded for
\* that date; a call with seconds >= the stored value leaves the list
\* unchanged and a strictly lower value replaces the entry.
entriesOf(list, d) == {k \in 1..Len(list) : list[k].date = d}
ScoresKeepMinimum ==
  /\ \A d \in Dates :
       /\ Cardinality(entriesOf(scores, d)) <= 1
       /\ recorded[d] # {} =>
            /\ Cardinality(entriesOf(scores, d)) = 1
            /\ \A k \in entriesOf(scores, d) : scores[k].seconds = MinOf(recorded[d])
  /\ (last.op = "recordScore" /\ last.date \in Dates /\ entriesOf(last.before, last.date) # {}) =>
       LET k == MinOf(entriesOf(last.before, last.date))
       IN IF last.seconds >= last.before[k].seconds
          THEN scores = last.before
          ELSE scores = [last.before EXCEPT ![k] = [date |-> last.date, seconds |-> last.seconds]]

\* 2 recorded, then 1 (replaces), then 2 again (ignored): the best stays 1
ScoresWitness ==
  /\ last.op = "recordScore" /\ last.date = D1 /\ last.seconds = 2
  /\ recorded[D1] = {1, 2}
  /\ last.before = scores
  /\ \E k \in 1..Len(scores) : scores[k] = [date |-> D1, seconds |-> 1]


\* C4: when no load is in flight any more and none has failed, the puzzle
\* and the grid are those of the document of the route's date: a load that
\* resolves after a newer load has started does not overwrite the newer state.
answersOf(g) == [i \in DOMAIN g |-> IF g[i] = Null THEN Absent ELSE g[i].answer]
LatestLoadWins ==
  (inflight = {} /\ error = "") =>
    \/ puzzle = NoPuzzle /\ grid = EmptyArr
    \/ /\ puzzle = corePuzzle(Doc(currentDate))
       /\ answersOf(grid) = answersOf(initialGrid(Doc(currentDate)))

\* C5: neither typeLetter nor handleBackspace changes the userInput of a cell
\* whose status is correct.
LockedCellsKeepInput ==
  [][last'.op \in {"typeLetter", "handleBackspace"} =>
       \A i \in DOMAIN grid :
         (grid[i] # Null /\ grid[i].status = "correct" /\ i \in DOMAIN grid')
           => grid'[i].userInput = grid[i].userInput]_vars

\* C6: after a grid-mutating operation has run to completion (no finishPuzzle
\* continuation pending) the stored record of the current date holds the
\* userInput and status of every cell of the in-memory grid.
GridMutators == {"typeLetter", "handleBackspace", "handleInput", "checkAnswers",
                 "clearErrors", "clearAll", "finishResume"}
PersistedMatchesGrid ==
  (last.op \in GridMutators /\ finishQ = <<>>) =>
    /\ store[currentDate] # NoRec
    /\ store[currentDate].grid = stripGrid(grid)

\* C7: after clearAll the stored progress of the current date carries nothing
\* of the state before the clear: there is no record, or its grid is empty,
\* its timer 0 and its started flag false.
blankStored(g) == \A i \in DOMAIN g : g[i] = Null \/ (g[i].userInput = "" /\ g[i].status = "neutral")
ClearAllDeletesProgress ==
  last.op = "clearAll" =>
    \/ store[currentDate] = NoRec
    \/ /\ store[currentDate].timer = 0 /\ ~store[currentDate].started
       /\ blankStored(store[currentDate].grid)

\* C8: after clearAll every playable cell has an empty userInput and status
\* neutral, timer = 0 and started, paused, completed are false.
ClearAllResetsMemory ==
  last.op = "clearAll" =>
    /\ \A i \in DOMAIN grid : grid[i] = Null \/ (grid[i].userInput = "" /\ grid[i].status = "neutral")
    /\ timer = 0 /\ ~started /\ ~paused /\ ~completed

\* clearAll on a started, completed puzzle
ClearAllWitness ==
  /\ last.op = "clearAll" /\ last.wasStarted /\ last.wasCompleted
  /\ length(grid) > 0

\* C9: a load that finds no stored record, or one whose grid length differs
\* from the parsed grid, starts fresh: empty neutral cells, timer 0, all flags
\* false.
savedApplies(rec, g) == rec # NoRec /\ length(rec.grid) = length(g)
LoadIgnoresMismatch ==
  (last.op = "load" /\ ~savedApplies(store[last.thisDate], grid)) =>
    /\ \A i \in DOMAIN grid : grid[i] = Null \/ (grid[i].userInput = "" /\ grid[i].status = "neutral")
    /\ timer = 0 /\ ~started /\ ~paused /\ ~completed

\* a load over a stored record of another length that says started, timer 2
LoadMismatchWitness ==
  /\ last.op = "load"
  /\ store[last.thisDate] # NoRec
  /\ length(store[last.thisDate].grid) # length(grid)
  /\ store[last.thisDate].started /\ store[last.thisDate].timer > 0
  /\ length(grid) > 0

\* C10: when a stored record of matching length is restored, which cells are
\* blocked and every cell's answer and label are those of the parsed document;
\* userInput and status per index and timer, started, paused, completed are
\* those of the record.
RestoreTakesOnlyProgress ==
  (last.op = "load" /\ savedApplies(store[last.thisDate], grid)) =>
    LET fresh == initialGrid(Doc(last.doc))
        saved == store[last.thisDate]
    IN /\ DOMAIN grid = DOMAIN fresh
       /\ \A i \in DOMAIN grid :
            IF fresh[i] = Null THEN grid[i] = Null
            ELSE /\ grid[i] # Null
                 /\ grid[i].answer = fresh[i].answer /\ grid[i].label = fresh[i].label
                 /\ grid[i].userInput =
                      (IF saved.grid[i] = Null \/ saved.grid[i].userInput = Absent
                       THEN "" ELSE saved.grid[i].userInput)
                 /\ grid[i].status =
                      (IF saved.grid[i] = Null \/ saved.grid[i].status \in {Absent, ""}
                       THEN "neutral" ELSE saved.grid[i].status)
       /\ timer = saved.timer /\ started = saved.started
       /\ paused = saved.paused /\ completed = saved.completed

\* a restore over a record that carries another answer for a playable cell
\* and an entry for a blocked cell
RestoreWitness ==
  /\ last.op = "load" /\ savedApplies(store[last.thisDate], grid)
  /\ \E i \in DOMAIN grid :
       /\ grid[i] # Null /\ store[last.thisDate].grid[i] # Null
       /\ store[last.thisDate].grid[i].answer \notin {Absent, grid[i].answer}
       /\ grid[i].userInput = store[last.thisDate].grid[i].userInput
  /\ \E j \in DOMAIN grid : grid[j] = Null /\ store[last.thisDate].grid[j] # Null
  /\ started

\* C11: checkAnswers on a grid whose cells are all correct, after the puzzle
\* was completed and its score recorded, changes no cell, calls finishPuzzle
\* no second time and leaves the scores as they are.
allStatusCorrect(g) == length(g) # 0 /\ \A i \in DOMAIN g : g[i] = Null \/ g[i].status = "correct"
CheckAnswersIdempotent ==
  [][(last'.op = "checkAnswers" /\ completed /\ finishQ = <<>> /\ allStatusCorrect(grid)) =>
       (grid' = grid /\ finishQ' = finishQ /\ scores' = scores)]_vars

\* C12: the timer value changes only by a tick of +1 taken while
\* started && !paused && !completed, or by clearAll or a load (its start or
\* its result), or when the component and its state are discarded; pausing
\* and resuming (toggleTimer, the clear modal) leave the value as it is.
TimerResets == {"clearAll", "load", "loadRandom", "navigate", "unmount"}
TimerOnlyTicks ==
  [][timer' # timer =>
       \/ last'.op = "tick" /\ timer' = timer + 1 /\ isPlaying
       \/ last'.op \in TimerResets]_vars

\* resumed with the value accumulated before the pause, the interval
\* registered again
TimerResumeWitness ==
  /\ last.op = "toggleTimer" /\ isPlaying /\ timer = 1 /\ intervals = 1
  /\ events >= 3

\* C13: at most one interval is registered at any moment, and none while the
\* state is not running (not started, paused or completed) or the component
\* is unmounted.
NoLeakedTick ==
  /\ intervals <= 1
  /\ (~mounted \/ ~isPlaying) => intervals = 0

\* the component was unmounted while the timer was running
NoLeakedTickWitness ==
  /\ last.op = "unmount" /\ last.wasRunning
  /\ ~mounted /\ intervals = 0

\* C14: a call of finishPuzzle sets completed and captures the grid, the
\* timer value and the current date; its continuation shows that grid with
\* every non-null cell correct, leaves the scores with an entry for that date
\* (the captured seconds, unless a lower time was stored) and stores for that
\* date a record with completed = true, the captured timer and the
\* all-correct grid.
allCorrectOf(g, from) ==
  /\ DOMAIN g = DOMAIN from
  /\ \A i \in DOMAIN g :
       IF from[i] = Null THEN g[i] = Null
       ELSE g[i] # Null /\ g[i].status = "correct" /\ g[i].userInput = from[i].userInput
FinishPuzzleEffects ==
  [][/\ Len(finishQ') > Len(finishQ) =>
          /\ completed'
          /\ finishQ'[Len(finishQ')].grid = grid'
          /\ finishQ'[Len(finishQ')].secs = timer
          /\ finishQ'[Len(finishQ')].date = currentDate
     /\ last'.op = "finishResume" =>
          LET f == Head(finishQ)
              before == entriesOf(scores, f.date)
          IN /\ mounted => allCorrectOf(grid', f.grid)
             /\ Cardinality(entriesOf(scores', f.date)) = 1
             /\ \A k \in entriesOf(scores', f.date) :
                  scores'[k].seconds =
                    (IF before # {} /\ scores[MinOf(before)].seconds <= f.secs
                     THEN scores[MinOf(before)].seconds ELSE f.secs)
             /\ store'[f.date] # NoRec
             /\ store'[f.date].completed /\ store'[f.date].timer = f.secs
             /\ allCorrectOf(store'[f.date].grid, f.grid)]_vars

\* the puzzle finished by typing its last letter: the cells were neutral,
\* the continuation has made them correct, recorded the time and stored the
\* completed record
FinishPuzzleWitness ==
  /\ last.op = "finishResume" /\ completed /\ timer > 0
  /\ allStatusCorrect(grid)
  /\ scores = <<[date |-> currentDate, seconds |-> timer]>>
  /\ store[currentDate] # NoRec /\ store[currentDate].completed
  /\ store[currentDate].timer = timer

\* C15: in every reachable state activeIndex is none or the index of a
\* non-null cell of the grid (the documents' clue lists name only in-range
\* playable cells).
ActiveCellPlayable ==
  activeIndex = NoIndex \/ (activeIndex \in DOMAIN grid /\ grid[activeIndex] # Null)

\* the state SpecAfterFinish starts in is a state of Spec
AfterFinishReached ==
  /\ dateParam = D2 /\ puzzle = corePuzzle(Doc(D2))
  /\ grid = typedGrid(initialGrid(Doc(D2)), <<"B", "A">>)
  /\ timer = 0 /\ started /\ ~paused /\ completed /\ activeIndex = 1 /\ direction = "Across"
  /\ ~showClearModal /\ ~resumeAfterModal /\ mounted /\ intervals = 0 /\ ~effectInterval
  /\ store = [d \in Dates |->
                IF d = D2 THEN ProgressRec(D2, stripGrid(typedGrid(initialGrid(Doc(D2)), <<"B">>)),
                                           0, TRUE, FALSE, FALSE)
                ELSE NoRec]
  /\ scores = <<>> /\ inflight = {} /\ error = ""
  /\ finishQ = <<[grid |-> grid, secs |-> 0, date |-> D2, started |-> TRUE, paused |-> FALSE]>>
  /\ last = [op |-> "typeLetter"] /\ cols = 3 /\ rows = 1

\* C16: typeLetter writes the uppercased letter into the active cell and
\* moves the cursor to the cell after it in the word of the current
\* direction, whatever that cell holds; at the last cell of the word, or on a
\* cell with no word in the current direction, the cursor stays.
upper(k) == CASE k = "a" -> "A" [] k = "b" -> "B" [] OTHER -> k
wordOf(i, dir) ==
  LET K == {k \in 1..Len(puzzle) : puzzle[k].direction = dir /\ i \in Range(puzzle[k].cells)}
  IN IF K = {} THEN <<>> ELSE puzzle[CHOOSE k \in K : TRUE].cells
posIn(c, i) == CHOOSE k \in 1..Len(c) : c[k] = i
TypeLetterAdvances ==
  [][last'.op = "typeLetter" =>
       LET c == wordOf(activeIndex, direction)
       IN /\ grid'[activeIndex].userInput = upper(typed'.letter)
          /\ activeIndex' = IF c # <<>> /\ posIn(c, activeIndex) < Len(c)
                             THEN c[posIn(c, activeIndex) + 1] ELSE activeIndex]_vars

\* a letter typed into cell 0 of the word: the cursor is on cell 1, which is
\* filled and locked
TypeLetterWitness ==
  /\ last.op = "typeLetter" /\ events = 1 /\ typed.at = 0 /\ direction = "Across"
  /\ activeIndex = 1 /\ grid[1].status = "correct" /\ grid[1].userInput = "B"
  /\ grid[0].userInput = "A"

\* C17: handleBackspace on an active cell with empty userInput at word
\* position p moves the cursor to position max(p - 1, 0) of the word and
\* empties that cell; when the active cell has no word in the current
\* direction the cursor stays and the active cell is emptied.  No other
\* cell's userInput changes.
BackspaceOnEmpty ==
  [][(last'.op = "handleBackspace" /\ grid[activeIndex].userInput = "") =>
       LET c == wordOf(activeIndex, direction)
           target == IF c = <<>> THEN activeIndex
                     ELSE IF posIn(c, activeIndex) > 2 THEN c[posIn(c, activeIndex) - 1]
                     ELSE c[1]
       IN /\ activeIndex' = target
          /\ grid'[target].userInput = ""
          /\ \A i \in DOMAIN grid \ {target} : grid'[i].userInput = grid[i].userInput]_vars

\* a letter was typed into cell 1 and the cursor went on to the empty cell 2
\* (position 2); Backspace there has moved it back to position 1 and emptied
\* the cell that held the letter
BackspaceWitness ==
  /\ last.op = "handleBackspace" /\ events = 2 /\ typed # NoRec /\ typed.at = 1
  /\ direction = "Across" /\ activeIndex = 1
  /\ grid[1].userInput = "" /\ grid[2].userInput = ""

\* C18: typeLetter into an interior cell of the word (one with a cell after
\* it) followed at once by handleBackspace leaves that cell with the
\* userInput it had before the letter was typed.
interiorTyped ==
  /\ typed # NoRec
  /\ wordOf(typed.at, direction) # <<>>
  /\ posIn(wordOf(typed.at, direction), typed.at) < Len(wordOf(typed.at, direction))
afterTyped == wordOf(typed.at, direction)[posIn(wordOf(typed.at, direction), typed.at) + 1]
TypeThenBackspaceRestores ==
  [][(last.op = "typeLetter" /\ last'.op = "handleBackspace" /\ interiorTyped) =>
       grid'[typed.at].userInput = typed.prior]_vars

\* C18, amended: when the cell typed into was empty before and the cell
\* after it in the word is empty, handleBackspace right after typeLetter
\* returns the cursor to the cell and leaves it empty as before.
TypeThenBackspaceEmpties ==
  [][(/\ last.op = "typeLetter" /\ last'.op = "handleBackspace" /\ interiorTyped
      /\ typed.prior = "" /\ grid[afterTyped].userInput = "") =>
       (grid'[typed.at].userInput = typed.prior /\ activeIndex' = typed.at)]_vars

\* a letter typed into the empty cell 1, the cursor on the empty cell 2, then
\* Backspace: cell 1 is empty again and holds the cursor
TypeThenBackspaceWitness ==
  /\ last.op = "handleBackspace" /\ events = 2
  /\ typed # NoRec /\ typed.at = 1 /\ typed.prior = ""
  /\ direction = "Across" /\ activeIndex = 1
  /\ grid[1].userInput = "" /\ grid[2].userInput = ""

\* C19: clearErrors resets to empty and neutral exactly the cells whose
\* userInput is empty or differs from the answer ignoring case, leaves every
\* other cell as it is, status included, and changes neither started nor
\* timer.
ClearErrorsResetsMismatches ==
  [][last'.op = "clearErrors" =>
       /\ DOMAIN grid' = DOMAIN grid
       /\ \A i \in DOMAIN grid :
            IF grid[i] = Null THEN grid'[i] = Null
            ELSE IF grid[i].userInput # "" /\ fold(grid[i].userInput) = fold(grid[i].answer)
                 THEN grid'[i] = grid[i]
                 ELSE grid'[i] = [grid[i] EXCEPT !.userInput = "", !.status = "neutral"]
       /\ started' = started /\ timer' = timer]_vars

\* after clearErrors: a restored lower-case letter that matches its
\* upper-case answer is kept with its status, a wrong letter typed next to
\* it is gone
ClearErrorsWitness ==
  /\ last.op = "clearErrors" /\ length(grid) = 4 /\ events = 5
  /\ grid[0].userInput = "a" /\ grid[0].answer = "A" /\ grid[0].status = "correct"
  /\ grid[1].userInput = "" /\ grid[1].status = "neutral"
  /\ started /\ timer = 1

\* C20: checkAnswers gives every non-null cell the status correct when its
\* userInput is non-empty and equals the answer ignoring case, wrong when it
\* is non-empty and differs, neutral when it is empty; it changes no
\* userInput, and it calls finishPuzzle exactly when every non-null cell has
\* become correct.
CheckAnswersMarks ==
  [][last'.op = "checkAnswers" =>
       /\ DOMAIN grid' = DOMAIN grid
       /\ \A i \in DOMAIN grid :
            IF grid[i] = Null THEN grid'[i] = Null
            ELSE grid'[i] = [grid[i] EXCEPT !.status =
                               IF grid[i].userInput = "" THEN "neutral"
                               ELSE IF fold(grid[i].userInput) = fold(grid[i].answer)
                                    THEN "correct" ELSE "wrong"]
       /\ (Len(finishQ') > Len(finishQ)) <=>
            (\A i \in DOMAIN grid' : grid'[i] = Null \/ grid'[i].status = "correct")]_vars

\* a check that marked one cell correct (a lower-case letter against an
\* upper-case answer), one wrong and left an empty one neutral, without
\* finishing
CheckAnswersWitness ==
  /\ last.op = "checkAnswers" /\ length(grid) = 4 /\ finishQ = <<>> /\ ~completed
  /\ grid[0].userInput = "a" /\ grid[0].answer = "A" /\ grid[0].status = "correct"
  /\ grid[1].userInput = "A" /\ grid[1].answer = "b" /\ grid[1].status = "wrong"
  /\ grid[2].userInput = "" /\ grid[2].status = "neutral"

\* C21: when checkAnswers leaves the grid not fully correct and the active
\* cell is correct afterwards, the cursor moves to the first editable cell of
\* the word of the current direction (the first that is not correct and
\* empty, else the first that is not correct) if there is one, otherwise to
\* the lowest-index playable cell that is not correct; when the active cell
\* is not correct afterwards the cursor stays.  The new active cell is never
\* correct.
unlocked(g) == {i \in DOMAIN g : g[i] # Null /\ g[i].status # "correct"}
unlockedEmpty(g) == {i \in unlocked(g) : g[i].userInput = ""}
firstOf(c, S) ==
  IF \E k \in 1..Len(c) : c[k] \in S
  THEN c[CHOOSE k \in 1..Len(c) : c[k] \in S /\ \A j \in 1..(k - 1) : c[j] \notin S]
  ELSE NoIndex
editableOf(c, g) == IF firstOf(c, unlockedEmpty(g)) # NoIndex THEN firstOf(c, unlockedEmpty(g))
                    ELSE firstOf(c, unlocked(g))
ahead(key, a) ==
  {j \in DOMAIN grid :
     /\ grid[j] # Null
     /\ CASE key = "ArrowRight" -> j > a /\ j \div cols = a \div cols
          [] key = "ArrowLeft" -> j < a /\ j \div cols = a \div cols
          [] key = "ArrowDown" -> j > a /\ j % cols = a % cols
          [] OTHER -> j < a /\ j % cols = a % cols}
dist(a, b) == IF a < b THEN b - a ELSE a - b
nearest(S, a) == CHOOSE j \in S : \A k \in S : dist(a, j) <= dist(a, k)
MoveByArrowNearest ==
  [][last'.op = "moveByArrow" =>
       activeIndex' = IF ahead(called'.key, activeIndex) = {} THEN activeIndex
                      ELSE nearest(ahead(called'.key, activeIndex), activeIndex)]_vars

\* ArrowLeft from cell 5 stepped over the blocked cell 4 and landed on cell 3
MoveByArrowWitness ==
  /\ last.op = "moveByArrow" /\ called.key = "ArrowLeft" /\ called.from = 5
  /\ activeIndex = 3 /\ grid[4] = Null

\* C23: when moveByArrow moves the cursor, direction becomes Across for
\* Left/Right and Down for Up/Down, whether or not the destination has a word
\* in that direction; when nothing playable lies ahead, the cursor and the
\* direction are both unchanged.
MoveByArrowDirection ==
  [][last'.op = "moveByArrow" =>
       IF ahead(called'.key, activeIndex) = {}
       THEN activeIndex' = activeIndex /\ direction' = direction
       ELSE /\ activeIndex' # activeIndex
            /\ direction' = IF called'.key \in {"ArrowLeft", "ArrowRight"}
                             THEN "Across" ELSE "Down"]_vars

\* ArrowRight from cell 3 while the direction was Down: the cursor is on cell
\* 5, which belongs to no word, and the direction is Across
MoveByArrowDirectionWitness ==
  /\ last.op = "moveByArrow"
  /\ called = [key |-> "ArrowRight", from |-> 3, dir |-> "Down"]
  /\ activeIndex = 5 /\ direction = "Across"
  /\ wordOf(5, "Across") = << >>

\* C24: handleCellClick on a playable cell other than the active one makes it
\* active; when the cell belongs to a word in exactly one direction, direction
\* becomes that one; when it belongs to both, direction becomes the direction
\* whose word still has a cell with empty userInput if exactly one of the two
\* words has one, and stays as it was when both or neither have one.  A click
\* on a blocked cell changes nothing.
hasEmpty(c) == \E k \in 1..Len(c) : grid[c[k]] # Null /\ grid[c[k]].userInput = ""
CellClickSelects ==
  [][/\ (last'.op = "handleCellClick" /\ called'.index # activeIndex) =>
          LET i == called'.index
              across == wordOf(i, "Across")
              down == wordOf(i, "Down")
          IN /\ activeIndex' = i
             /\ (across # << >> /\ down = << >>) => direction' = "Across"
             /\ (across = << >> /\ down # << >>) => direction' = "Down"
             /\ (across # << >> /\ down # << >>) =>
                  direction' = IF hasEmpty(across) /\ ~hasEmpty(down) THEN "Across"
                               ELSE IF hasEmpty(down) /\ ~hasEmpty(across) THEN "Down"
                               ELSE direction
     /\ last'.op = "handleCellClickIgnored" =>
          /\ grid[called'.index] = Null
          /\ UNCHANGED <<activeIndex, direction, grid, store, scores, timer, started, paused,
                         completed>>]_vars

\* C25: toggleDirection, and a click on the cell that is already active,
\* always flip direction; the cursor moves to the first editable cell of the
\* new direction's word at the current cell when there is one and otherwise
\* stays; two consecutive toggles restore the direction held before the first.
flipped(d) == CHOOSE e \in {"Across", "Down"} : e # d
HandleInputFrame ==
  [][last'.op \in {"handleInput", "handleInputIgnored"} =>
       LET i == called'.index
       IN /\ activeIndex' = activeIndex /\ direction' = direction
          /\ IF grid[i] = Null \/ grid[i].status = "correct"
             THEN grid' = grid
             ELSE /\ \A j \in DOMAIN grid : j # i => grid'[j] = grid[j]
                  /\ grid'[i] = [grid[i] EXCEPT
                                   !.userInput = upper(called'.value),
                                   !.status = IF grid[i].status = "wrong" THEN "neutral"
                                              ELSE grid[i].status]]_vars

\* a lower-case letter was put into cell 1, which was marked wrong, while
\* cell 2 is locked: cell 1 holds the capital and is neutral
HandleInputWitness ==
  /\ last.op = "handleInput" /\ called = [index |-> 1, value |-> "b"] /\ events = 1
  /\ grid[1].userInput = "B" /\ grid[1].status = "neutral"
  /\ grid[2].status = "correct" /\ grid[3].status = "wrong"

\* C28: typeLetter on a cell whose status is wrong leaves that cell neutral,
\* whatever letter is typed, the same wrong letter included; a cell that was
\* neutral stays neutral, and the status of no other cell changes.
TypeLetterClearsWrong ==
  [][last'.op = "typeLetter" =>
       /\ grid[activeIndex].status \in {"wrong", "neutral"} =>
            grid'[activeIndex].status = "neutral"
       /\ \A j \in DOMAIN grid :
            (j # activeIndex /\ grid[j] # Null) => grid'[j].status = grid[j].status]_vars

\* the wrong letter A of cell 1 was typed again: cell 1 still holds A and is
\* neutral, and cell 0 is still marked wrong
TypeLetterClearsWrongWitness ==
  /\ last.op = "typeLetter" /\ events = 1
  /\ typed = [at |-> 1, prior |-> "A", letter |-> "a"]
  /\ grid[1].userInput = "A" /\ grid[1].status = "neutral"
  /\ grid[0].status = "wrong"

\* C29: toggleTimer sets started and clears paused when the puzzle is not yet
\* started, and otherwise only flips paused; while the component is mounted,
\* started goes from true to false only through clearAll or a load (the reset
\* at the start of a load, or the saved progress the load applies).
LoadOps == {"navigate", "load", "loadRandom"}
ToggleTimerStarts ==
  [][/\ last'.op = "toggleTimer" =>
          IF started THEN started' /\ paused' = ~paused
          ELSE started' /\ ~paused'
     /\ (started /\ ~started' /\ mounted') => last'.op \in {"clearAll"} \cup LoadOps]_vars

\* the timer was toggled on a started puzzle: it is still started and is now
\* paused
ToggleTimerWitness ==
  /\ last.op = "toggleTimer" /\ started /\ paused /\ ~completed /\ events = 2

\* C30: the stored scores change only when the continuation of finishPuzzle
\* records a completion: typing, backspace, checkAnswers, clearErrors,
\* clearAll, navigation, loading and every other step leave them as they are.
ScoresOnlyOnCompletion ==
  [][scores' # scores => (last'.op = "finishResume" /\ finishQ # << >>)]_vars

\* a completion was recorded and the puzzle was then cleared with clearAll:
\* the score is still there
ScoresKeptWitness ==
  /\ last.op = "clearAll" /\ last.wasCompleted /\ Len(scores) = 1 /\ ~completed

\* C31: a step in which localStorage throws has the same effect on the state
\* in memory (grid, cursor, direction, timer, flags, error and the rest of the
\* component's state) as the same step taken with working storage; the one
\* exception is a load, which then gives what it gives when no record is
\* saved: the fresh grid of the document, timer 0, flags false (and, when a
\* random request is redirected, the reset state of a starting load).  No
\* error is set by the failure.
memory == <<dateParam, puzzle, grid, cols, rows, error, timer, started, paused, completed,
            activeIndex, direction, showClearModal, resumeAfterModal, mounted, intervals,
            effectInterval, inflight, finishQ, navCount, events, last>>
handlerOf(o) ==
  \/ o = "navigate" /\ Navigate
  \/ o = "loadFail" /\ LoadError
  \/ o = "tick" /\ TimerTick
  \/ o = "toggleTimer" /\ TimerClick
  \/ o = "typeLetter" /\ KeyLetter
  \/ o = "moveByArrow" /\ KeyArrow
  \/ o = "handleBackspace" /\ KeyBackspace
  \/ o = "toggleDirection" /\ KeyToggle
  \/ o = "jumpToWordEdge" /\ KeyHomeEnd
  \/ o = "handleCellClick" /\ CellClick
  \/ o \in {"handleInput", "handleInputIgnored"} /\ InputChange
  \/ o = "handleSelectClue" /\ ClueClick
  \/ o = "checkAnswers" /\ CheckClick
  \/ o = "finishResume" /\ PlayResolve
  \/ o = "openClearModal" /\ ClearClick
  \/ o = "closeClearModal" /\ ModalClose
  \/ o = "clearErrors" /\ ModalClearErrors
  \/ o = "clearAll" /\ ModalClearAll
  \/ o = "persistNow" /\ VisibilityChange
  \/ o = "unmount" /\ Unmount
StorageFailureSwallowed ==
  [][storage' = "raises" =>
       CASE last'.op = "load" ->
              /\ grid' = initialGrid(Doc(last'.doc)) /\ puzzle' = corePuzzle(Doc(last'.doc))
              /\ timer' = 0 /\ ~started' /\ ~paused' /\ ~completed'
              /\ error' = error
         [] last'.op = "loadRandom" ->
              /\ grid' = EmptyArr /\ puzzle' = NoPuzzle /\ activeIndex' = NoIndex
              /\ timer' = 0 /\ ~started' /\ ~paused' /\ ~completed'
              /\ error' = ""
         [] OTHER ->
              \E m \in {memory'} :
                ENABLED (handlerOf(m[Len(m)].op) /\ storage' = "works" /\ memory' = m)]_vars

\* a load found localStorage throwing while a record of the right length for
\* its date was stored: the grid is the fresh one and nothing is started
StorageFailureWitness ==
  /\ storage = "raises" /\ last.op = "load" /\ last.thisDate = D1
  /\ store[D1] # NoRec /\ length(store[D1].grid) = length(grid)
  /\ ~started /\ error = "" /\ grid = initialGrid(Doc(D1))

\* C32: a load whose document lacks cells or clues, or whose fetch reports
\* failure, ends in the error state with no partial grid: error is non-empty,
\* grid is empty, puzzle is none, the cursor is none, timer is 0 and started,
\* paused and completed are all false.
FailedLoadShowsNothing ==
  [][last'.op = "loadFail" =>
       /\ error' # ""
       /\ grid' = EmptyArr /\ puzzle' = NoPuzzle /\ activeIndex' = NoIndex
       /\ timer' = 0 /\ ~started' /\ ~paused' /\ ~completed']_vars

\* C33: after a load that restores saved progress, whatever the stored record
\* of matching length holds, the status of every playable cell is one of
\* neutral, correct, wrong.
RestoredStatusesValid ==
  (last.op = "load" /\ savedApplies(store[last.thisDate], grid)) =>
    \A i \in DOMAIN grid : grid[i] # Null => grid[i].status \in {"neutral", "correct", "wrong"}

\* C34: key events are handled only when the puzzle is started and not
\* paused: before the start and while paused, letter keys, arrow keys,
\* Backspace, Space / Tab / Enter and Home / End leave the grid, the cursor,
\* the direction and the persisted progress unchanged.
KeysIgnoredUnlessPlaying ==
  [][(~started \/ paused) => UNCHANGED <<grid, activeIndex, direction, store>>]_vars

\* a letter key was pressed while the puzzle was paused and nothing was typed
\* into the empty cell under the cursor
KeysIgnoredWitness ==
  /\ last.op = "onKeyDownIgnored" /\ called = [key |-> "a"]
  /\ started /\ paused /\ activeIndex = 1 /\ grid[1].userInput = ""

\* C35: starting from a load that restored nothing, after any sequence of
\* typeLetter, handleBackspace, handleInput, checkAnswers, clearErrors,
\* clearAll and cursor moves, every cell whose status is correct holds a
\* userInput equal, case-insensitively, to its answer.
CorrectCellsMatchAnswer ==
  \A i \in DOMAIN grid :
    (grid[i] # Null /\ grid[i].status = "correct")
      => toUpperCase(OrEmpty(grid[i].userInput)) = toUpperCase(OrEmpty(grid[i].answer))

\* C36: whenever completed is true every playable cell holds its answer, and
\* a stored record with completed = true holds, cell by cell, the answers of
\* the puzzle of its date.
storedAllCorrect(d) ==
  LET g == store[d].grid
      doc == initialGrid(Doc(d))
  IN  /\ DOMAIN g = DOMAIN doc
      /\ \A i \in DOMAIN g :
           IF doc[i] = Null THEN g[i] = Null
           ELSE /\ g[i] # Null
                /\ toUpperCase(OrEmpty(g[i].userInput)) = toUpperCase(OrEmpty(doc[i].answer))

CompletedMeansSolved ==
  /\ completed => isAllCorrect(grid)
  /\ \A d \in Dates : (store[d] # NoRec /\ store[d].completed) => storedAllCorrect(d)

\* C37: moveByArrow, jumpToWordEdge, toggleDirection, handleCellClick and
\* handleSelectClue change only the cursor and the direction: the grid, the
\* timer, started, paused, completed, the stored progress and the scores
\* are as before.
NavOps == {"moveByArrow", "jumpToWordEdge", "toggleDirection", "handleCellClick",
           "handleCellClickIgnored", "handleSelectClue"}
NavigationFrame ==
  [][last'.op \in NavOps =>
       UNCHANGED <<grid, timer, started, paused, completed, store, scores>>]_vars

\* an arrow key moved the cursor and turned the direction on a grid that
\* holds a letter, with the timer running
NavigationFrameWitness ==
  /\ last.op = "moveByArrow"
  /\ called.from # activeIndex /\ called.dir # direction
  /\ started /\ ~paused
  /\ \E i \in DOMAIN grid : grid[i] # Null /\ grid[i].userInput # ""

\* C38: progress is read and written only under the date of the puzzle
\* document in the grid (while the grid is still empty, of the date the
\* route asks for): a load looks up the record of the date of the document
\* it received, for a "random" request the resolved date, and every write
\* to the stored progress goes to the record of the puzzle in the grid.
docDate(g) ==
  IF \E d \in Dates : answersOf(g) = answersOf(initialGrid(Doc(d)))
  THEN CHOOSE d \in Dates : answersOf(g) = answersOf(initialGrid(Doc(d)))
  ELSE Absent
puzzleDate ==
  IF grid # EmptyArr THEN docDate(grid)
  ELSE IF isDateStr(dateParam) THEN dateParam ELSE Absent
ProgressKeyedByDocument ==
  [][/\ (inflight' # inflight /\ last'.op \in {"load", "loadRandom"})
          => last'.thisDate = last'.doc
     /\ \A d \in Dates : store'[d] # store[d] => d = puzzleDate]_vars

\* C39: the proxy's date route answers from its cache only with a body that
\* came from the upstream with status 200 and is younger than the TTL, and
\* the cache never holds the body of a failed upstream response.
CacheServesOnlySuccess ==
  /\ \A d \in Dates : cache[d] # NoEntry => cache[d].data.upstream = 200
  /\ (response # NoResponse /\ response.cached)
       => response.body.upstream = 200 /\ response.age < CACHE_TTL

====
